---- MODULE Spec2Model ----
(***************************************************************************)
(* A model of the ClipStream AI backend (clipstream-ai-backend/main.py):   *)
(* the process_video endpoint as a state machine, with the trailer         *)
(* planning loop of create_trailer stepped one iteration at a time, and    *)
(* the subtitle grouping of create_subtitles_with_ffmpeg and the per-frame *)
(* face choice of create_vertical_video as functions applied to drawn      *)
(* inputs.  Times are whole seconds, scores tenths.  Collaborators         *)
(* (storage, yt-dlp, WhisperX, Gemini, the Columbia face tracker, ffmpeg,  *)
(* the webhook receiver) are nondeterministic choices over the outcomes    *)
(* the code distinguishes.                                                 *)
(***************************************************************************)
EXTENDS Integers, Sequences, FiniteSets, TLC

\* ------------------------------------------------------------ constants
\* create_trailer: content budget, thresholds and selection cap.
max_content_duration == 55
MinMomentDuration == 3
TrimThreshold == 18
MaxSelected == 6
\* process_video: clip mode handles clip_moments[:3].
MaxClips == 3

\* -------------------------------------------------------------- bounds
\* Longest candidate list the moment-identification step returns here.
MaxCands == 4
\* Longest candidate list handed to create_trailer in SpecPlan.
MaxPlanLen == 7
\* Longest candidate list handed to create_trailer in SpecTrailer.
MaxTrailerLen == 4

\* ---------------------------------------------------------- candidates
\* An element of the parsed JSON list.  kind "object" is a JSON object with
\* the keys in `keys`; kind "scalar" is a number, null or boolean, on which
\* both `"start" in moment` and moment["start"] raise TypeError.
Moment(s, e) == [kind |-> "object", keys |-> {"start", "end"}, start |-> s, end |-> e]
NoStartObject == [kind |-> "object", keys |-> {"end"}, start |-> 0, end |-> 25]
ScalarElement == [kind |-> "scalar", keys |-> {}, start |-> 0, end |-> 0]

\* Candidates of the pipeline specification: two usable moments, one whose
\* end precedes its start, and two malformed elements.
PipelineElements ==
    {Moment(10, 25), Moment(40, 65), Moment(30, 20), NoStartObject, ScalarElement}

\* Candidates of the planning specification: too short, short, natural, long.
PlanElements == {Moment(0, 2), Moment(5, 9), Moment(10, 25), Moment(40, 65)}

BoundedSeq(S, n) == UNION {[1..k -> S] : k \in 0..n}

WellFormed(m) == m.kind = "object" /\ {"start", "end"} \subseteq m.keys

Duration(m) == m.end - m.start

RECURSIVE SumDurations(_)
SumDurations(s) == IF s = <<>> THEN 0 ELSE Duration(Head(s)) + SumDurations(Tail(s))

\* ----------------------------------------------------------- variables
VARIABLES
    pc,                     \* position in process_video / create_trailer
    request,                \* the inbound ProcessVideoRequest and its token
    base_dir,               \* TRUE while the run directory /tmp/<run_id> exists
    cookies_tmp,            \* the NamedTemporaryFile: "none", "exists", "removed"
    cookies_s3,             \* the stored cookies object: "untouched", "deleted", "delete_failed"
    duration,               \* seconds yt-dlp reported for the video, 0 before it did
    llm_calls,              \* generate_content calls made, in order
    clip_moments,           \* the parsed candidate list
    sorted_moments,         \* create_trailer: candidates sorted by start
    selected_moments,       \* create_trailer: the plan so far
    total_content_duration, \* create_trailer: the bookkeeping total
    idx,                    \* loop index (1-based) of the loop at pc
    processed_clips,        \* create_trailer: segments processed so far
    dropped_segments,       \* create_trailer: indices whose processing returned None
    input_list,             \* input_list.txt: the segment index of each line written
    attempted,              \* clip mode: indices (0-based) handed to process_clip
    clips_created,          \* clip mode: process_clip calls that returned
    uploads,                \* artifacts stored in the bucket by this run
    trailer,                \* how the trailer was rendered: "none", "crossfade", "simple"
    error_message,          \* the message of the exception in flight (a sequence of parts)
    notifications,          \* calls of send_webhook_notification, in order
    posts,                  \* outcome of each call: "skipped", "200", "non200", "exception"
    response,               \* "none", "not_authenticated", "401", "success", "500", "timeout"
    stage,                  \* which component function is being exercised, if any
    transcript_segments,    \* create_subtitles_with_ffmpeg: the word segments given
    clip_start,             \* create_subtitles_with_ffmpeg: start of the clip window
    clip_end,               \* create_subtitles_with_ffmpeg: end of the clip window
    max_words,              \* create_subtitles_with_ffmpeg: words allowed per line
    subtitles,              \* create_subtitles_with_ffmpeg: the lines built
    tracks,                 \* create_vertical_video: the face tracks given
    scores,                 \* create_vertical_video: the score array of each track
    flist,                  \* create_vertical_video: per frame file, whether imread reads it
    faces,                  \* create_vertical_video: per frame, the faces seen with their smoothed score
    decisions,              \* create_vertical_video: mode and face chosen per frame
    img_shape,              \* create_vertical_video, crop mode: width and height of the frame read
    face_x,                 \* create_vertical_video, crop mode: x of the chosen face, in source pixels
    crop,                   \* create_vertical_video, crop mode: width of the scaled frame and of the
                            \* cropped image, and top_x
    clip_durations,         \* combine_clips_with_narrative_flow: duration of each processed clip, in tenths of a second
    filter_graph            \* combine_clips_with_narrative_flow: the filters of -filter_complex, in order, and the -map labels

vars == <<pc, request, base_dir, cookies_tmp, cookies_s3, duration, llm_calls, clip_moments,
          sorted_moments, selected_moments, total_content_duration, idx,
          processed_clips, dropped_segments, attempted, clips_created, uploads,
          trailer, error_message, notifications, posts, response, input_list,
          stage, transcript_segments, clip_start, clip_end, max_words, subtitles,
          tracks, scores, flist, faces, decisions, img_shape, face_x, crop,
          clip_durations, filter_graph>>

sourceVars == <<cookies_tmp, cookies_s3, duration>>
planVars == <<sorted_moments, selected_moments, total_content_duration>>
clipVars == <<attempted, clips_created>>
segmentVars == <<processed_clips, dropped_segments>>
notifyVars == <<notifications, posts, response>>
subtitleVars == <<transcript_segments, clip_start, clip_end, max_words, subtitles>>
cropVars == <<img_shape, face_x, crop>>
faceVars == <<tracks, scores, flist, faces, decisions, cropVars>>
graphVars == <<clip_durations, filter_graph>>
componentVars == <<stage, subtitleVars, faceVars, graphVars>>
pipelineVars == <<pc, request, base_dir, sourceVars, llm_calls, clip_moments, planVars,
                  idx, segmentVars, input_list, clipVars, uploads, trailer,
                  error_message, notifyVars>>

\* create_subtitles_with_ffmpeg is not being exercised.
NoSubtitles ==
    /\ transcript_segments = <<>>
    /\ clip_start = 0
    /\ clip_end = 0
    /\ max_words = 0
    /\ subtitles = <<>>

\* No frame is being cropped.
NoCrop ==
    /\ img_shape = [width |-> 0, height |-> 0]
    /\ face_x = 0
    /\ crop = [frame_width |-> 0, top_x |-> 0, cropped_width |-> 0]

\* create_vertical_video is not being exercised.
NoFaces ==
    /\ tracks = <<>>
    /\ scores = <<>>
    /\ flist = <<>>
    /\ faces = <<>>
    /\ decisions = <<>>
    /\ NoCrop

\* No filter graph is being built.
NoGraph ==
    /\ clip_durations = <<>>
    /\ filter_graph = [filters |-> <<>>, maps |-> <<>>]

\* No component function is being exercised: the pipeline specifications.
NoComponent ==
    /\ stage = "none"
    /\ NoSubtitles
    /\ NoFaces
    /\ NoGraph

\* The Authorization header of a request: the expected bearer token, another
\* token, or none at all.
Tokens == {"valid", "wrong", "missing"}

NoRequest ==
    [token |-> "missing", youtube_url |-> FALSE, cookies_s3_key |-> FALSE,
     generate_trailer |-> FALSE]

Requests ==
    [token : Tokens, youtube_url : BOOLEAN, cookies_s3_key : BOOLEAN,
     generate_trailer : BOOLEAN]

\* The state before a request arrives.
IdlePipeline ==
    /\ pc = "idle"
    /\ request = NoRequest
    /\ base_dir = FALSE
    /\ cookies_tmp = "none"
    /\ cookies_s3 = "untouched"
    /\ duration = 0
    /\ llm_calls = <<>>
    /\ clip_moments = <<>>
    /\ sorted_moments = <<>>
    /\ selected_moments = <<>>
    /\ total_content_duration = 0
    /\ idx = 0
    /\ processed_clips = <<>>
    /\ dropped_segments = {}
    /\ attempted = {}
    /\ clips_created = 0
    /\ uploads = {}
    /\ trailer = "none"
    /\ error_message = <<>>
    /\ notifications = <<>>
    /\ posts = <<>>
    /\ response = "none"
    /\ input_list = <<>>

Init == IdlePipeline /\ NoComponent

\* ------------------------------------------------------ raising, in try
\* An exception raised inside the try block of process_video (line 1172)
\* lands in the handler at line 1368 with str(e) as the message.
Raise(msg) ==
    /\ pc' = "except"
    /\ error_message' = msg

\* Inside the trailer branch every exception is caught at line 1327 and
\* raised again as "Trailer generation failed: {e}".
RaiseInTrailer(msg) == Raise(<<"Trailer generation failed">> \o msg)

\* ----------------------------------------------------- request and auth
TokenAccepted_Any(r) == TRUE

\* Line 1163: token.credentials is compared with AUTH_TOKEN.
TokenAccepted(r) == r.token = "valid"

\* process_video, lines 1133-1169: a request without credentials is turned
\* away by the HTTPBearer dependency (line 139) before the body runs; a
\* wrong bearer token is answered 401 before the try block is entered.
ProcessVideo ==
    /\ pc = "idle"
    /\ \E r \in Requests :
        /\ request' = r
        /\ IF TokenAccepted(r)
              THEN /\ pc' = "mkdir"
                   /\ response' = response
              ELSE /\ pc' = "done"
                   /\ response' = IF r.token = "missing" THEN "not_authenticated"
                                                          ELSE "401"
    /\ UNCHANGED <<base_dir, sourceVars, llm_calls, clip_moments, planVars, idx,
                   segmentVars, clipVars, uploads, trailer, error_message,
                   notifications, posts, input_list, componentVars>>

\* Lines 1174-1176: the run directory is created; when mkdir raises, the
\* handler finds no directory to remove.
MakeRunDir ==
    /\ pc = "mkdir"
    /\ \E ok \in BOOLEAN :
        IF ok
           THEN base_dir' = TRUE /\ pc' = "source" /\ error_message' = error_message
           ELSE base_dir' = FALSE /\ Raise(<<"mkdir failed">>)
    /\ UNCHANGED <<request, sourceVars, llm_calls, clip_moments, planVars, idx,
                   segmentVars, clipVars, uploads, trailer, notifyVars,
                   input_list, componentVars>>

\* ------------------------------------------------------------ the source
\* Lines 1187-1197: head_object on the cookies key; a failure raises
\* HTTPException(400), which the handler at 1368 catches like any other.
HeadCookies ==
    /\ pc = "source"
    /\ request.youtube_url /\ request.cookies_s3_key
    /\ \E found \in BOOLEAN :
        IF found
           THEN pc' = "cookies_download" /\ error_message' = error_message
           ELSE Raise(<<"400", "Cookies file missing">>)
    /\ UNCHANGED <<request, base_dir, sourceVars, llm_calls, clip_moments, planVars,
                   idx, segmentVars, clipVars, uploads, trailer, notifyVars,
                   input_list, componentVars>>

\* Lines 1199-1207: the temporary file is created with delete=False; when
\* download_fileobj raises, HTTPException(400) leaves the with block and
\* nothing removes the file (the finally at 1235 belongs to the later try).
DownloadCookies ==
    /\ pc = "cookies_download"
    /\ cookies_tmp' = "exists"
    /\ \E ok \in BOOLEAN :
        IF ok
           THEN pc' = "youtube_download" /\ error_message' = error_message
           ELSE Raise(<<"400", "Failed to access cookies file">>)
    /\ UNCHANGED <<request, base_dir, cookies_s3, duration, llm_calls, clip_moments, planVars,
                   idx, segmentVars, clipVars, uploads, trailer, notifyVars,
                   input_list, componentVars>>

\* 60 * 60, line 1228.
MaxVideoDuration == 3600

\* The durations yt-dlp reports: the longest one allowed and one second more.
Durations == {MaxVideoDuration, MaxVideoDuration + 1}

DurationAllowed_NoCap(d) == TRUE

\* Line 1228: `if duration > 60 * 60` raises.
DurationAllowed(d) == ~(d > MaxVideoDuration)

\* Lines 1209-1249: yt-dlp downloads the video (extract_info with
\* download=True) and reports its duration; a failure of yt-dlp, or a
\* reported duration over one hour, removes the run directory and raises
\* HTTPException(400).  The finally clause then removes the temporary
\* cookies file (cookies_path is always set here) and deletes the stored
\* cookies object; either deletion may fail and is swallowed.
YoutubeDownload ==
    /\ pc = "youtube_download"
    /\ \E raised \in BOOLEAN, d \in Durations, removed \in BOOLEAN, deleted \in BOOLEAN :
        /\ cookies_tmp' = IF removed THEN "removed" ELSE "exists"
        /\ cookies_s3' = IF deleted THEN "deleted" ELSE "delete_failed"
        /\ duration' = IF raised THEN duration ELSE d
        /\ IF ~raised /\ DurationAllowed(d)
              THEN /\ pc' = "transcribe"
                   /\ UNCHANGED <<base_dir, error_message>>
              ELSE /\ base_dir' = FALSE
                   /\ Raise(<<"400", "YouTube download failed">>
                            \o IF raised
                                  THEN <<"yt-dlp error">>
                                  ELSE <<"Video too long (max 1 hour)">>)
    /\ UNCHANGED <<request, llm_calls, clip_moments, planVars, idx, segmentVars,
                   clipVars, uploads, trailer, notifyVars, input_list, componentVars>>

FromBucket_NoCookieCheck(r) == ~(r.youtube_url /\ r.cookies_s3_key)

\* Lines 1187, 1250, 1254: the else branch, reached only without a
\* YouTube URL.
FromBucket(r) == ~r.youtube_url

\* Lines 1250-1253: a YouTube URL without a cookies key.
MissingCookies ==
    /\ pc = "source"
    /\ request.youtube_url /\ ~request.cookies_s3_key
    /\ Raise(<<"400", "Cookies file is required for YouTube downloads">>)
    /\ UNCHANGED <<request, base_dir, sourceVars, llm_calls, clip_moments, planVars,
                   idx, segmentVars, clipVars, uploads, trailer, notifyVars,
                   input_list, componentVars>>

\* Lines 1254-1257: the video is fetched from the bucket.
DownloadS3 ==
    /\ pc = "source"
    /\ FromBucket(request)
    /\ \E ok \in BOOLEAN :
        IF ok
           THEN pc' = "transcribe" /\ error_message' = error_message
           ELSE Raise(<<"S3 download failed">>)
    /\ UNCHANGED <<request, base_dir, sourceVars, llm_calls, clip_moments, planVars,
                   idx, segmentVars, clipVars, uploads, trailer, notifyVars,
                   input_list, componentVars>>

\* Lines 1259-1261 and transcribe_video: fatal to the run when it fails.
Transcribe ==
    /\ pc = "transcribe"
    /\ \E ok \in BOOLEAN :
        IF ok
           THEN pc' = "identify" /\ error_message' = error_message
           ELSE Raise(<<"Transcription failed">>)
    /\ UNCHANGED <<request, base_dir, sourceVars, llm_calls, clip_moments, planVars,
                   idx, segmentVars, clipVars, uploads, trailer, notifyVars,
                   input_list, componentVars>>

\* ------------------------------------------------- moment identification
\* What generate_content can answer: text that parses to a JSON list
\* (items), text that is JSON but no list, text that is no JSON, a response
\* without text (response.text is None), or an API error; the text may be
\* wrapped in a ```json code fence.
LLMResponses ==
    [kind : {"list"}, fenced : BOOLEAN, items : BoundedSeq(PipelineElements, MaxCands)]
    \cup [kind : {"not_list", "not_json", "absent", "api_error"}, fenced : {FALSE},
          items : {<<>>}]

EmptyListText == [kind |-> "list", fenced |-> FALSE, items |-> <<>>]

\* identify_moments, lines 1005-1034: response.text as it is (None
\* included), "[]" when the API call raises.
IdentifyMomentsText(r) == IF r.kind = "api_error" THEN EmptyListText ELSE r

\* identify_trailer_moments, lines 1053-1130: a missing or blank text
\* becomes "[]", the fenced JSON is extracted, text that json.loads rejects
\* becomes "[]", as does an API error.
IdentifyTrailerMomentsText(r) ==
    IF r.kind \in {"api_error", "not_json", "absent"}
       THEN EmptyListText
       ELSE [r EXCEPT !.fenced = FALSE]

\* str(e) of the AttributeError that None.strip() raises, lines 1275, 1308.
NoneHasNoStrip == <<"'NoneType' object has no attribute 'strip'">>

\* One entry of llm_calls: the prompt used, the kind of answer it got and
\* the items of an answer that is a list.
Call(prompt, r) == [prompt |-> prompt, kind |-> r.kind, items |-> r.items]

\* Lines 1275-1279: a leading ```json and a trailing ``` are stripped.
StripFence(t) == [t EXCEPT !.fenced = FALSE]

\* Lines 1284-1294: json.loads; a parse error or a non-list gives [].
ParseMoments(t) ==
    IF t.fenced \/ t.kind # "list" THEN <<>> ELSE t.items

NeedsFallback_Always(parsed) == TRUE

\* Line 1303: `if not clip_moments`.
NeedsFallback(parsed) == parsed = <<>>

\* Lines 1263-1297: one identification call with the prompt of the mode,
\* then cleaning and parsing; .strip() on a missing text raises (line
\* 1275) before the parse is reached.
Identify ==
    /\ pc = "identify"
    /\ \E r \in LLMResponses :
        LET text == IF request.generate_trailer
                       THEN IdentifyTrailerMomentsText(r)
                       ELSE IdentifyMomentsText(r)
            parsed == ParseMoments(StripFence(text))
        IN  /\ llm_calls' = Append(llm_calls,
                                   Call(IF request.generate_trailer THEN "trailer"
                                                                    ELSE "clips", r))
            /\ IF text.kind = "absent"
                  THEN /\ clip_moments' = clip_moments
                       /\ Raise(NoneHasNoStrip)
                  ELSE /\ clip_moments' = parsed
                       /\ error_message' = error_message
                       /\ pc' = IF ~request.generate_trailer THEN "clips"
                                ELSE IF NeedsFallback(parsed) THEN "trailer_fallback"
                                ELSE "create_trailer"
    /\ idx' = 1
    /\ UNCHANGED <<request, base_dir, sourceVars, planVars, segmentVars, clipVars,
                   uploads, trailer, notifyVars, input_list, componentVars>>

FallbackUsable_MoreThanOne(fallback) ==
    ~fallback.fenced /\ fallback.kind = "list" /\ Len(fallback.items) > 1

\* Lines 1313-1315: json.loads accepts the cleaned text and the value is a
\* list with at least one element.
FallbackUsable(fallback) ==
    ~fallback.fenced /\ fallback.kind = "list" /\ fallback.items # <<>>

\* Lines 1303-1322: with no trailer moments the clip prompt is asked as
\* well; its non-empty list replaces the candidates, anything else raises.
TrailerFallback ==
    /\ pc = "trailer_fallback"
    /\ \E r \in LLMResponses :
        LET fallback == StripFence(IdentifyMomentsText(r))
        IN  /\ llm_calls' = Append(llm_calls, Call("clips", r))
            /\ IF fallback.kind = "absent"
                  THEN /\ clip_moments' = clip_moments
                       /\ RaiseInTrailer(NoneHasNoStrip)
                  ELSE IF FallbackUsable(fallback)
                  THEN /\ clip_moments' = fallback.items
                       /\ pc' = "create_trailer"
                       /\ error_message' = error_message
                  ELSE /\ clip_moments' = clip_moments
                       /\ RaiseInTrailer(<<"No suitable moments found in video for trailer generation">>)
    /\ UNCHANGED <<request, base_dir, sourceVars, planVars, idx, segmentVars,
                   clipVars, uploads, trailer, notifyVars, input_list, componentVars>>

\* -------------------------------------------------- create_trailer: plan
\* sorted(clip_moments, key=lambda m: m["start"]), line 464: a stable sort
\* by start.  InsertByStart puts m after every element whose start is not
\* greater, so equal starts keep their input order.
RECURSIVE InsertByStart(_, _)
InsertByStart(m, s) ==
    IF s = <<>> THEN <<m>>
    ELSE IF Head(s).start <= m.start
            THEN <<Head(s)>> \o InsertByStart(m, Tail(s))
            ELSE <<m>> \o s

SortByStart_Unsorted(s) == s

RECURSIVE SortByStart(_)
SortByStart(s) ==
    IF s = <<>> THEN <<>>
    ELSE InsertByStart(s[Len(s)], SortByStart(SubSeq(s, 1, Len(s) - 1)))

\* The key function m["start"] raises on an element that is no object
\* (TypeError) or has no "start" (KeyError).
SortRaises(s) == \E i \in 1..Len(s) : s[i].kind # "object" \/ "start" \notin s[i].keys

\* Line 478 with the threshold one second too low.
TooShort_Lenient(d) == d < MinMomentDuration - 1

\* Line 478: moments under 3 seconds are skipped.
TooShort(d) == d < MinMomentDuration

\* Lines 481-492 without the trimming branch.
TrimLong_Off(m) == m

\* Lines 481-492: a moment of at most 18 s is copied as it is, a longer one
\* is copied with its end moved to start + 18.
TrimLong(m) ==
    IF Duration(m) <= TrimThreshold THEN m ELSE [m EXCEPT !.end = m.start + TrimThreshold]

\* Line 495 comparing against the 60 s target instead of the content budget.
FitsBudget_Target(total, final_duration) == total + final_duration <= 60

\* Line 495: the budget test.
FitsBudget(total, final_duration) == total + final_duration <= max_content_duration

\* Line 502 without the minimum on the remaining budget.
CanTrimToRemaining_NoMinimum(remaining_budget, final_duration) ==
    final_duration > remaining_budget

\* Line 502: the last moment may be cut to the remaining budget.
CanTrimToRemaining(remaining_budget, final_duration) ==
    remaining_budget >= MinMomentDuration /\ final_duration > remaining_budget

\* Line 514 stopping one moment early.
CapReached_Early(selected) == Len(selected) >= MaxSelected - 1

\* Line 514 with > in place of >=.
CapReached_OffByOne(selected) == Len(selected) > MaxSelected

\* Line 514: the cap on the number of selected moments.
CapReached(selected) == Len(selected) >= MaxSelected

\* Lines 451-464: the trailer directory is made, the plan is initialised
\* and the candidates are sorted.
CreateTrailer ==
    /\ pc = "create_trailer"
    /\ selected_moments' = <<>>
    /\ total_content_duration' = 0
    /\ idx' = 1
    /\ IF SortRaises(clip_moments)
          THEN /\ sorted_moments' = sorted_moments
               /\ RaiseInTrailer(<<"TypeError or KeyError: start">>)
          ELSE /\ sorted_moments' = SortByStart(clip_moments)
               /\ pc' = "plan_loop"
               /\ error_message' = error_message
    /\ UNCHANGED <<request, base_dir, sourceVars, llm_calls, clip_moments,
                   segmentVars, clipVars, uploads, trailer, notifyVars,
                   input_list, componentVars>>

\* Lines 466-515: one iteration of the selection loop, or its exit.
PlanIter ==
    /\ pc = "plan_loop"
    /\ IF idx > Len(sorted_moments) \/ total_content_duration >= max_content_duration
          THEN \* the list is exhausted, or the break of line 468
               /\ pc' = "plan_check"
               /\ UNCHANGED <<selected_moments, total_content_duration, idx, error_message>>
          ELSE
            LET moment == sorted_moments[idx]
                original_duration == Duration(moment)
                adjusted_moment == TrimLong(moment)
                final_duration == Duration(adjusted_moment)
                remaining_budget == max_content_duration - total_content_duration
            IN  IF "end" \notin moment.keys
                   THEN /\ RaiseInTrailer(<<"KeyError: end">>)
                        /\ UNCHANGED <<selected_moments, total_content_duration, idx>>
                ELSE IF TooShort(original_duration)
                   THEN \* continue, line 480
                        /\ idx' = idx + 1
                        /\ UNCHANGED <<pc, selected_moments, total_content_duration,
                                       error_message>>
                ELSE IF FitsBudget(total_content_duration, final_duration)
                   THEN /\ selected_moments' = Append(selected_moments, adjusted_moment)
                        /\ total_content_duration' = total_content_duration + final_duration
                        /\ idx' = idx + 1
                        /\ pc' = IF CapReached(selected_moments') THEN "plan_check"
                                 ELSE "plan_loop"
                        /\ error_message' = error_message
                ELSE IF CanTrimToRemaining(remaining_budget, final_duration)
                   THEN \* lines 504-508: cut to the remaining budget and break
                        /\ selected_moments' =
                              Append(selected_moments,
                                     [adjusted_moment EXCEPT
                                        !.end = adjusted_moment.start + remaining_budget])
                        /\ total_content_duration' = total_content_duration + remaining_budget
                        /\ idx' = idx + 1
                        /\ pc' = "plan_check"
                        /\ error_message' = error_message
                   ELSE \* continue, line 511
                        /\ idx' = idx + 1
                        /\ UNCHANGED <<pc, selected_moments, total_content_duration,
                                       error_message>>
    /\ UNCHANGED <<request, base_dir, sourceVars, llm_calls, clip_moments, sorted_moments,
                   segmentVars, clipVars, uploads, trailer, notifyVars,
                   input_list, componentVars>>

\* Lines 517-523 without the check for an empty plan.
PlanCheck_NoRaise ==
    /\ pc = "plan_check"
    /\ pc' = "segments"
    /\ idx' = 1
    /\ processed_clips' = <<>>
    /\ dropped_segments' = {}
    /\ UNCHANGED <<request, base_dir, sourceVars, llm_calls, clip_moments, planVars,
                   clipVars, uploads, trailer, error_message, notifyVars,
                   input_list, componentVars>>

\* Lines 517-523: an empty plan raises before any segment is touched.
PlanCheck ==
    /\ pc = "plan_check"
    /\ IF selected_moments = <<>>
          THEN /\ RaiseInTrailer(<<"No suitable moments found for trailer">>)
               /\ UNCHANGED <<idx, segmentVars>>
          ELSE /\ pc' = "segments"
               /\ idx' = 1
               /\ processed_clips' = <<>>
               /\ dropped_segments' = {}
               /\ error_message' = error_message
    /\ UNCHANGED <<request, base_dir, sourceVars, llm_calls, clip_moments, planVars,
                   clipVars, uploads, trailer, notifyVars, input_list, componentVars>>

\* ---------------------------------------------- create_trailer: segments
ClipArtifact(i) == <<"clip", i>>
TrailerArtifact == <<"trailer", 0>>

\* Lines 525-539 with process_trailer_segment (549-631): the segment is cut,
\* tracked, reframed and subtitled.  "ok" returns the subtitled path;
\* "columbia_failed" (603-607) and "tracking_missing" (613-615) return None
\* and the segment is left out; "raise" is any other step failing (ffmpeg,
\* reframing, subtitles).
ProcessTrailerSegment ==
    /\ pc = "segments"
    /\ idx <= Len(selected_moments)
    /\ \E outcome \in {"ok", "columbia_failed", "tracking_missing", "raise"} :
        LET moment == selected_moments[idx] IN
        /\ processed_clips' =
              IF outcome = "ok"
                 THEN Append(processed_clips,
                             [start |-> moment.start, end |-> moment.end,
                              index |-> idx - 1, duration |-> moment.end - moment.start])
                 ELSE processed_clips
        /\ dropped_segments' =
              IF outcome \in {"columbia_failed", "tracking_missing"}
                 THEN dropped_segments \cup {idx - 1}
                 ELSE dropped_segments
        /\ IF outcome = "raise"
              THEN /\ RaiseInTrailer(<<"segment processing failed">>)
                   /\ idx' = idx
              ELSE /\ idx' = idx + 1
                   /\ UNCHANGED <<pc, error_message>>
    /\ UNCHANGED <<request, base_dir, sourceVars, llm_calls, clip_moments, planVars,
                   clipVars, uploads, trailer, notifyVars, input_list, componentVars>>

\* Lines 541-542 as they would read if one dropped segment failed the trailer.
SegmentsDone_AnyDropFatal ==
    /\ pc = "segments"
    /\ idx > Len(selected_moments)
    /\ IF processed_clips = <<>> \/ dropped_segments # {}
          THEN RaiseInTrailer(<<"No valid clips generated for trailer">>)
          ELSE pc' = "combine" /\ error_message' = error_message
    /\ UNCHANGED <<request, base_dir, sourceVars, llm_calls, clip_moments, planVars,
                   idx, segmentVars, clipVars, uploads, trailer, notifyVars,
                   input_list, componentVars>>

\* Lines 541-542: with no processed segment at all the trailer fails.
SegmentsDone ==
    /\ pc = "segments"
    /\ idx > Len(selected_moments)
    /\ IF processed_clips = <<>>
          THEN RaiseInTrailer(<<"No valid clips generated for trailer">>)
          ELSE pc' = "combine" /\ error_message' = error_message
    /\ UNCHANGED <<request, base_dir, sourceVars, llm_calls, clip_moments, planVars,
                   idx, segmentVars, clipVars, uploads, trailer, notifyVars,
                   input_list, componentVars>>

\* The transitions in the video of each render: the filter graph of lines
\* 672-706 (fade-in on the first clip, xfade between clips, fade-out at the
\* end) for the crossfade render; the fallback command of lines 719-722
\* has no filter at all.  (combine_clips_simple, 733-778, whose command has
\* a fade-in and a fade-out, is called nowhere.)
RenderEffects(render) ==
    IF render = "crossfade" THEN {"fade_in", "crossfade", "fade_out"} ELSE {}

\* combine_clips_with_narrative_flow, lines 633-731: the crossfade render;
\* when it fails, the plain concatenation; then the upload.  Back in
\* process_video (1324-1326) processing_success is set.
CombineClips ==
    /\ pc = "combine"
    /\ input_list' = [i \in 1..Len(processed_clips) |-> processed_clips[i].index]
    /\ \E render \in {"crossfade", "simple", "failed"}, uploaded \in BOOLEAN :
        IF render = "failed"
           THEN /\ RaiseInTrailer(<<"ffmpeg concat failed">>)
                /\ UNCHANGED <<trailer, uploads>>
           ELSE /\ trailer' = render
                /\ IF uploaded
                      THEN /\ uploads' = uploads \cup {TrailerArtifact}
                           /\ pc' = "cleanup"
                           /\ error_message' = error_message
                      ELSE /\ uploads' = uploads
                           /\ RaiseInTrailer(<<"S3 upload failed">>)
    /\ UNCHANGED <<request, base_dir, sourceVars, llm_calls, clip_moments, planVars,
                   idx, segmentVars, clipVars, notifyVars, componentVars>>

\* -------------------------------------------------------------- clip mode
\* clip_moments[:3], line 1335.
ClipCount == IF Len(clip_moments) < MaxClips THEN Len(clip_moments) ELSE MaxClips

\* Lines 1335-1341 with process_clip (782-884): one candidate of the loop.
\* `"start" in moment` raises TypeError on a scalar, outside the inner try;
\* an object without both keys is passed over; otherwise process_clip runs:
\* "raised" is caught at 1340, and a failed upload is swallowed inside
\* process_clip (880-884), which then still returns.
ProcessClip ==
    /\ pc = "clips"
    /\ idx <= ClipCount
    /\ LET moment == clip_moments[idx] IN
        IF moment.kind = "scalar"
           THEN /\ Raise(<<"TypeError: argument is not iterable">>)
                /\ UNCHANGED <<idx, attempted, clips_created, uploads>>
        ELSE IF ~({"start", "end"} \subseteq moment.keys)
           THEN /\ idx' = idx + 1
                /\ UNCHANGED <<pc, error_message, attempted, clips_created, uploads>>
        ELSE \E outcome \in {"raised", "uploaded", "upload_failed"} :
                /\ attempted' = attempted \cup {idx - 1}
                /\ clips_created' = IF outcome = "raised" THEN clips_created
                                    ELSE clips_created + 1
                /\ uploads' = IF outcome = "uploaded"
                                 THEN uploads \cup {ClipArtifact(idx - 1)}
                                 ELSE uploads
                /\ idx' = idx + 1
                /\ UNCHANGED <<pc, error_message>>
    /\ UNCHANGED <<request, base_dir, sourceVars, llm_calls, clip_moments, planVars,
                   segmentVars, trailer, notifyVars, input_list, componentVars>>

NoClipsError_Generic(moments) ==
    <<"Processing failed - no clips or trailer were generated">>

\* Lines 1346-1354: the message of a clip run that created no clip.
NoClipsError(moments) ==
    IF moments = <<>>
       THEN <<"No suitable moments found in video">>
       ELSE <<"Processing failed - no clips or trailer were generated">>

\* Lines 1343-1354: success needs one created clip; otherwise the run
\* raises, with its own message when there were no moments at all.
ClipsDone ==
    /\ pc = "clips"
    /\ idx > ClipCount
    /\ IF clips_created > 0
          THEN pc' = "cleanup" /\ error_message' = error_message
       ELSE Raise(NoClipsError(clip_moments))
    /\ UNCHANGED <<request, base_dir, sourceVars, llm_calls, clip_moments, planVars,
                   idx, segmentVars, clipVars, uploads, trailer, notifyVars,
                   input_list, componentVars>>

\* ------------------------------------------------------- the two endings
\* send_webhook_notification, lines 47-86: one call; it posts once unless
\* WEBHOOK_URL is unset, and never raises.
WebhookOutcomes == {"skipped", "200", "non200", "exception"}

SendWebhook_Retry(status, message, outcome) ==
    /\ notifications' = Append(notifications, [status |-> status, error_message |-> message])
    /\ posts' = IF outcome \in {"non200", "exception"}
                   THEN posts \o <<outcome, outcome>>
                   ELSE Append(posts, outcome)

SendWebhook(status, message, outcome) ==
    /\ notifications' = Append(notifications, [status |-> status, error_message |-> message])
    /\ posts' = Append(posts, outcome)

\* Lines 1356-1359: the run directory is removed (rmtree with
\* ignore_errors=True; the removal is taken to succeed).
Cleanup ==
    /\ pc = "cleanup"
    /\ base_dir' = FALSE
    /\ pc' = "notify_success"
    /\ UNCHANGED <<request, sourceVars, llm_calls, clip_moments, planVars, idx,
                   segmentVars, clipVars, uploads, trailer, error_message,
                   notifyVars, input_list, componentVars>>

\* Lines 1361-1363.
NotifySuccess ==
    /\ pc = "notify_success"
    /\ \E outcome \in WebhookOutcomes : SendWebhook("success", <<>>, outcome)
    /\ pc' = "return"
    /\ UNCHANGED <<request, base_dir, sourceVars, llm_calls, clip_moments, planVars,
                   idx, segmentVars, clipVars, uploads, trailer, error_message,
                   response, input_list, componentVars>>

\* Line 1366.
ReturnSuccess ==
    /\ pc = "return"
    /\ response' = "success"
    /\ pc' = "done"
    /\ UNCHANGED <<request, base_dir, sourceVars, llm_calls, clip_moments, planVars,
                   idx, segmentVars, clipVars, uploads, trailer, error_message,
                   notifications, posts, input_list, componentVars>>

\* Lines 1368-1375: the handler removes the run directory if it is there.
ExceptCleanup ==
    /\ pc = "except"
    /\ base_dir' = FALSE
    /\ pc' = "notify_error"
    /\ UNCHANGED <<request, sourceVars, llm_calls, clip_moments, planVars, idx,
                   segmentVars, clipVars, uploads, trailer, error_message,
                   notifyVars, input_list, componentVars>>

\* The handler with the notification of line 1378 left out.
NotifyError_Omitted ==
    /\ pc = "notify_error"
    /\ pc' = "reraise"
    /\ UNCHANGED <<request, base_dir, sourceVars, llm_calls, clip_moments, planVars,
                   idx, segmentVars, clipVars, uploads, trailer, error_message,
                   notifyVars, input_list, componentVars>>

\* Line 1378.
NotifyError ==
    /\ pc = "notify_error"
    /\ \E outcome \in WebhookOutcomes : SendWebhook("error", error_message, outcome)
    /\ pc' = "reraise"
    /\ UNCHANGED <<request, base_dir, sourceVars, llm_calls, clip_moments, planVars,
                   idx, segmentVars, clipVars, uploads, trailer, error_message,
                   response, input_list, componentVars>>

\* Lines 1380-1384: every failure is answered with a 500.
RaiseHTTP500 ==
    /\ pc = "reraise"
    /\ response' = "500"
    /\ pc' = "done"
    /\ UNCHANGED <<request, base_dir, sourceVars, llm_calls, clip_moments, planVars,
                   idx, segmentVars, clipVars, uploads, trailer, error_message,
                   notifications, posts, input_list, componentVars>>

\* ------------------------------------------------------- specifications
Next ==
    \/ ProcessVideo
    \/ MakeRunDir
    \/ HeadCookies
    \/ DownloadCookies
    \/ YoutubeDownload
    \/ MissingCookies
    \/ DownloadS3
    \/ Transcribe
    \/ Identify
    \/ TrailerFallback
    \/ CreateTrailer
    \/ PlanIter
    \/ PlanCheck
    \/ ProcessTrailerSegment
    \/ SegmentsDone
    \/ CombineClips
    \/ ProcessClip
    \/ ClipsDone
    \/ Cleanup
    \/ NotifySuccess
    \/ ReturnSuccess
    \/ ExceptCleanup
    \/ NotifyError
    \/ RaiseHTTP500

\* One run of process_video, from the request to its response.
Spec == Init /\ [][Next]_vars

\* @app.cls(timeout=900), line 887: the platform ends a run that is still
\* going after 900 s, wherever it is; no statement of process_video runs
\* after that, so the state of the bucket and of the webhook stays as the
\* run left it.
Timeout ==
    /\ TokenAccepted(request)
    /\ pc \notin {"idle", "done"}
    /\ pc' = "done"
    /\ response' = "timeout"
    /\ UNCHANGED <<request, base_dir, sourceVars, llm_calls, clip_moments, planVars,
                   idx, segmentVars, clipVars, uploads, trailer, error_message,
                   notifications, posts, input_list, componentVars>>

NextTimeout == Next \/ Timeout

SpecTimeout == Init /\ [][NextTimeout]_vars

\* create_trailer called on a candidate list, in a trailer run that has
\* downloaded, transcribed and identified.
InCreateTrailer(candidates) ==
    /\ pc = "create_trailer"
    /\ request = [token |-> "valid", youtube_url |-> FALSE, cookies_s3_key |-> FALSE,
                  generate_trailer |-> TRUE]
    /\ base_dir = TRUE
    /\ cookies_tmp = "none"
    /\ cookies_s3 = "untouched"
    /\ duration = 0
    /\ clip_moments \in candidates
    /\ llm_calls = <<[prompt |-> "trailer", kind |-> "list", items |-> clip_moments]>>
    /\ sorted_moments = <<>>
    /\ selected_moments = <<>>
    /\ total_content_duration = 0
    /\ idx = 1
    /\ processed_clips = <<>>
    /\ dropped_segments = {}
    /\ attempted = {}
    /\ clips_created = 0
    /\ uploads = {}
    /\ trailer = "none"
    /\ error_message = <<>>
    /\ notifications = <<>>
    /\ posts = <<>>
    /\ response = "none"
    /\ input_list = <<>>
    /\ NoComponent

InitPlan == InCreateTrailer(BoundedSeq(PlanElements, MaxPlanLen))

NextPlan ==
    \/ CreateTrailer
    \/ PlanIter
    \/ PlanCheck

\* The selection of create_trailer (lines 458-520) on every candidate list.
SpecPlan == InitPlan /\ [][NextPlan]_vars

InitTrailer == InCreateTrailer(BoundedSeq(PlanElements, MaxTrailerLen))

NextTrailer ==
    \/ CreateTrailer
    \/ PlanIter
    \/ PlanCheck
    \/ ProcessTrailerSegment
    \/ SegmentsDone
    \/ CombineClips

\* create_trailer as a whole (lines 429-547), from its call to its return
\* or its exception.
SpecTrailer == InitTrailer /\ [][NextTrailer]_vars

\* ------------------------------------- create_subtitles_with_ffmpeg: lines
\* max_words as process_clip (line 878) and process_trailer_segment (line
\* 629) pass it.
ClipMaxWords == 5
TrailerMaxWords == 3

\* Longest transcript given to create_subtitles_with_ffmpeg.
MaxSegments == 6

\* A word segment of the transcript.  The word is a sequence of characters
\* and the times are whole seconds; timed is FALSE for a segment whose
\* "start" and "end" are None.
Segment(w, s, e) == [word |-> w, timed |-> TRUE, start |-> s, end |-> e]
UntimedSegment(w) == [word |-> w, timed |-> FALSE, start |-> 0, end |-> 0]

\* The segments transcripts are drawn from, in any order and number: two
\* overlapping words, a word with a leading space, a segment whose word is
\* only whitespace, and a segment without times.
WordSegments ==
    {Segment(<<"b">>, 1, 3), Segment(<<"c">>, 2, 4), Segment(<<" ", "d">>, 5, 7),
     Segment(<<" ">>, 3, 5), UntimedSegment(<<"u">>)}

\* The clip windows (clip_start, clip_end).  In (2,6) "b" spans the start
\* and "d" the end; in (3,5) "b" ends at the start and "d" begins at the end.
ClipWindows == {<<2, 6>>, <<3, 5>>}

MaxWordsChoices == {1, TrailerMaxWords, ClipMaxWords}

\* str.strip(), line 341.
RECURSIVE LStrip(_)
LStrip(w) == IF w # <<>> /\ Head(w) = " " THEN LStrip(Tail(w)) ELSE w

RECURSIVE RStrip(_)
RStrip(w) ==
    IF w # <<>> /\ w[Len(w)] = " " THEN RStrip(SubSeq(w, 1, Len(w) - 1)) ELSE w

Strip(w) == RStrip(LStrip(w))

\* ' '.join(current_words), lines 363 and 377.
RECURSIVE Join(_)
Join(words) ==
    IF words = <<>> THEN <<>>
    ELSE IF Len(words) = 1 THEN words[1]
    ELSE words[1] \o <<" ">> \o Join(Tail(words))

\* Lines 327-331: the window filter.
InClipWindow(segment, cs, ce) ==
    segment.timed /\ segment.end > cs /\ segment.start < ce

ClipSegments(segments, cs, ce) ==
    SelectSeq(segments, LAMBDA segment : InClipWindow(segment, cs, ce))

RelTime_Unclamped(t, cs) == t - cs

\* Lines 350-351: max(0.0, t - clip_start).
RelTime(t, cs) == IF t - cs > 0 THEN t - cs ELSE 0

\* Lines 334-337: the loop variables before the first word.  current_start
\* and current_end are None there; they are not read while current_words
\* is empty.
LoopStart ==
    [subtitles |-> <<>>, current_words |-> <<>>, current_start |-> 0,
     current_end |-> 0]

\* The tuple (current_start, current_end, ' '.join(current_words)).
CurrentLine(st) ==
    [start |-> st.current_start, end |-> st.current_end, text |-> Join(st.current_words)]

\* Lines 358-373 dropping the word that arrives at a full line.
GroupWord_DropOnFlush(st, segment, cs, mw) ==
    LET word == Strip(segment.word)
        start_rel == RelTime(segment.start, cs)
        end_rel == RelTime(segment.end, cs)
    IN  IF word = <<>> \/ ~segment.timed THEN st
        ELSE IF end_rel <= 0 THEN st
        ELSE IF st.current_words = <<>>
                THEN [st EXCEPT !.current_start = start_rel, !.current_end = end_rel,
                                !.current_words = <<word>>]
        ELSE IF Len(st.current_words) >= mw
                THEN [st EXCEPT !.subtitles = Append(@, CurrentLine(st)),
                                !.current_words = <<>>]
        ELSE [st EXCEPT !.current_words = Append(@, word), !.current_end = end_rel]

\* Lines 358-373 closing a line only when it holds more than max_words.
GroupWord_LateFlush(st, segment, cs, mw) ==
    LET word == Strip(segment.word)
        start_rel == RelTime(segment.start, cs)
        end_rel == RelTime(segment.end, cs)
    IN  IF word = <<>> \/ ~segment.timed THEN st
        ELSE IF end_rel <= 0 THEN st
        ELSE IF st.current_words = <<>>
                THEN [st EXCEPT !.current_start = start_rel, !.current_end = end_rel,
                                !.current_words = <<word>>]
        ELSE IF Len(st.current_words) > mw
                THEN [subtitles |-> Append(st.subtitles, CurrentLine(st)),
                      current_words |-> <<word>>, current_start |-> start_rel,
                      current_end |-> end_rel]
        ELSE [st EXCEPT !.current_words = Append(@, word), !.current_end = end_rel]

\* Lines 340-373, one pass of the loop body: a segment whose word is blank
\* after strip() or whose times are missing is passed over, as is one whose
\* relative end is not positive; the first word opens a line, a word that
\* finds max_words words in the line closes it and opens the next, any
\* other word joins the line and moves its end.
GroupWord(st, segment, cs, mw) ==
    LET word == Strip(segment.word)
        start_rel == RelTime(segment.start, cs)
        end_rel == RelTime(segment.end, cs)
    IN  IF word = <<>> \/ ~segment.timed THEN st
        ELSE IF end_rel <= 0 THEN st
        ELSE IF st.current_words = <<>>
                THEN [st EXCEPT !.current_start = start_rel, !.current_end = end_rel,
                                !.current_words = <<word>>]
        ELSE IF Len(st.current_words) >= mw
                THEN [subtitles |-> Append(st.subtitles, CurrentLine(st)),
                      current_words |-> <<word>>, current_start |-> start_rel,
                      current_end |-> end_rel]
        ELSE [st EXCEPT !.current_words = Append(@, word), !.current_end = end_rel]

\* Line 340: the loop over clip_segments.
RECURSIVE GroupAll(_, _, _, _)
GroupAll(st, segments, cs, mw) ==
    IF segments = <<>> THEN st
    ELSE GroupAll(GroupWord(st, Head(segments), cs, mw), Tail(segments), cs, mw)

\* Lines 376-378: the last line is added when it holds words.
FlushLast(st) ==
    IF st.current_words # <<>> THEN Append(st.subtitles, CurrentLine(st))
    ELSE st.subtitles

\* Lines 327-378: the subtitle lines of a clip.
SubtitleLines(segments, cs, ce, mw) ==
    FlushLast(GroupAll(LoopStart, ClipSegments(segments, cs, ce), cs, mw))

\* create_subtitles_with_ffmpeg is called with a transcript, a clip window
\* and max_words, and builds its lines.
CreateSubtitles ==
    /\ stage = "subtitles_call"
    /\ subtitles' = SubtitleLines(transcript_segments, clip_start, clip_end, max_words)
    /\ stage' = "subtitles_done"
    /\ UNCHANGED <<pipelineVars, transcript_segments, clip_start, clip_end, max_words,
                   faceVars, graphVars>>

InitSubtitles ==
    /\ IdlePipeline
    /\ stage = "subtitles_call"
    /\ transcript_segments \in BoundedSeq(WordSegments, MaxSegments)
    /\ \E w \in ClipWindows : clip_start = w[1] /\ clip_end = w[2]
    /\ max_words \in MaxWordsChoices
    /\ subtitles = <<>>
    /\ NoFaces
    /\ NoGraph

NextSubtitles == CreateSubtitles

SpecSubtitles == InitSubtitles /\ [][NextSubtitles]_vars

\* ----------------------------------- create_vertical_video: face per frame
\* Lines 182-183: the smoothing window reaches 30 frames to either side.
HalfWindow == 30

\* Most frames of a clip, and most face tracks.
MaxFrames == 2
MaxTracks == 2

\* Scores in tenths: -0.5, 0 and 0.8.
ScoreValues == {-5, 0, 8}

\* track["track"]["frame"]: the consecutive frame numbers (from 0) a track
\* covers, within a clip of n frames.
FrameRuns(n) ==
    UNION {{[i \in 1..k |-> first + i - 1] : k \in 1..(n - first)} : first \in 0..(n - 1)}

RECURSIVE SliceSum(_, _, _)
SliceSum(score_array, slice_start, slice_end) ==
    IF slice_start >= slice_end THEN 0
    ELSE score_array[slice_start + 1] + SliceSum(score_array, slice_start + 1, slice_end)

\* Lines 182-186: the mean of score_array[max(fidx-30,0) : min(fidx+30,len)]
\* as the fraction num/den, 0 for an empty slice; fidx counts from 0 within
\* the track.
SmoothedScore_Symmetric(score_array, fidx) ==
    LET slice_start == IF fidx - HalfWindow > 0 THEN fidx - HalfWindow ELSE 0
        slice_end == IF fidx + HalfWindow + 1 < Len(score_array)
                        THEN fidx + HalfWindow + 1
                        ELSE Len(score_array)
    IN  IF slice_end - slice_start > 0
           THEN [num |-> SliceSum(score_array, slice_start, slice_end),
                 den |-> slice_end - slice_start]
           ELSE [num |-> 0, den |-> 1]

SmoothedScore(score_array, fidx) ==
    LET slice_start == IF fidx - HalfWindow > 0 THEN fidx - HalfWindow ELSE 0
        slice_end == IF fidx + HalfWindow < Len(score_array) THEN fidx + HalfWindow
                     ELSE Len(score_array)
    IN  IF slice_end - slice_start > 0
           THEN [num |-> SliceSum(score_array, slice_start, slice_end),
                 den |-> slice_end - slice_start]
           ELSE [num |-> 0, den |-> 1]

ScoreLess(a, b) == a.num * b.den < b.num * a.den

\* Lines 179-197: faces[frame], the observations of a frame in the order
\* the tracks are enumerated; tidx counts from 0.
RECURSIVE FacesFrom(_, _, _, _)
FacesFrom(t, trks, scrs, frame) ==
    IF t > Len(trks) THEN <<>>
    ELSE (IF \E i \in 1..Len(trks[t].frame) : trks[t].frame[i] = frame
             THEN LET i == CHOOSE i \in 1..Len(trks[t].frame) : trks[t].frame[i] = frame
                  IN  <<[track |-> t - 1, score |-> SmoothedScore(scrs[t], i - 1)]>>
             ELSE <<>>) \o FacesFrom(t + 1, trks, scrs, frame)

Faces(trks, scrs, frame) == FacesFrom(1, trks, scrs, frame)

\* max(current_faces, key=score) keeping the last of equal scores.
RECURSIVE MaxScoreFace_LastWins(_)
MaxScoreFace_LastWins(current_faces) ==
    IF Len(current_faces) = 1 THEN current_faces[1]
    ELSE LET best == MaxScoreFace_LastWins(SubSeq(current_faces, 1, Len(current_faces) - 1))
             last == current_faces[Len(current_faces)]
         IN  IF ScoreLess(last.score, best.score) THEN best ELSE last

\* Line 213: max(current_faces, key=score) returns the first face of the
\* highest score.
RECURSIVE MaxScoreFace(_)
MaxScoreFace(current_faces) ==
    IF Len(current_faces) = 1 THEN current_faces[1]
    ELSE LET best == MaxScoreFace(SubSeq(current_faces, 1, Len(current_faces) - 1))
             last == current_faces[Len(current_faces)]
         IN  IF ScoreLess(best.score, last.score) THEN last ELSE best

\* A frame decision; track is -1 when no face is chosen.
Decision(mode, track) == [mode |-> mode, track |-> track]

\* Lines 213-230 without the filter of line 217.
Decide_KeepNegative(current_faces) ==
    IF current_faces = <<>> THEN Decision("resize", -1)
    ELSE Decision("crop", MaxScoreFace(current_faces).track)

\* Lines 213-230: the best face, dropped when its score is negative; crop
\* with a face, resize without.
Decide(current_faces) ==
    IF current_faces = <<>> THEN Decision("resize", -1)
    ELSE LET max_score_face == MaxScoreFace(current_faces)
         IN  IF max_score_face.score.num < 0 THEN Decision("resize", -1)
             ELSE Decision("crop", max_score_face.track)

\* Lines 176-234: the observations are registered, then every frame file
\* that imread can read gets its decision; an unreadable one is skipped.
CreateVerticalVideo ==
    /\ stage = "faces_call"
    /\ faces' = [f \in 1..Len(flist) |-> Faces(tracks, scores, f - 1)]
    /\ decisions' = [f \in 1..Len(flist) |->
                        IF flist[f] THEN Decide(faces'[f])
                        ELSE Decision("skipped", -1)]
    /\ stage' = "faces_done"
    /\ UNCHANGED <<pipelineVars, subtitleVars, tracks, scores, flist, cropVars,
                   graphVars>>

\* A clip of up to MaxFrames frame files, at most one of them unreadable,
\* and up to MaxTracks tracks with one score per covered frame.
InitFaces ==
    /\ IdlePipeline
    /\ stage = "faces_call"
    /\ NoSubtitles
    /\ \E n \in 0..MaxFrames, k \in 0..MaxTracks :
          /\ flist \in {[f \in 1..n |-> f # unreadable] : unreadable \in 0..n}
          /\ tracks \in [1..k -> [frame : FrameRuns(n)]]
          /\ scores \in [1..k -> BoundedSeq(ScoreValues, n)]
          /\ \A t \in 1..k : Len(scores[t]) = Len(tracks[t].frame)
    /\ faces = <<>>
    /\ decisions = <<>>
    /\ NoCrop
    /\ NoGraph

NextFaces == CreateVerticalVideo

SpecFaces == InitFaces /\ [][NextFaces]_vars

\* Longest track of the smoothing specification: long enough for the
\* window to be cut neither at the start nor at the end of the array.
MaxTrackLen == 62

\* A score array of the given length with one score of 0.8 at position
\* peak, -0.5 before it and 0 after it.
PeakedScores(len, peak) ==
    [i \in 1..len |-> IF i < peak THEN -5 ELSE IF i = peak THEN 8 ELSE 0]

\* One track of up to MaxTrackLen frames that starts at frame 0 or at
\* frame 1, in a clip that ends with the track; its score array has one
\* score per frame, or is empty.
InitSmooth ==
    /\ IdlePipeline
    /\ stage = "faces_call"
    /\ NoSubtitles
    /\ \E k \in 1..MaxTrackLen, first \in 0..1 :
          /\ flist = [f \in 1..(first + k) |-> TRUE]
          /\ tracks = <<[frame |-> [i \in 1..k |-> first + i - 1]]>>
          /\ scores \in {<<PeakedScores(k, peak)>> : peak \in 1..k} \cup {<< <<>> >>}
    /\ faces = <<>>
    /\ decisions = <<>>
    /\ NoCrop
    /\ NoGraph

NextSmooth == CreateVerticalVideo

SpecSmooth == InitSmooth /\ [][NextSmooth]_vars

\* ----------------------------------- create_vertical_video: the crop window
\* Lines 169-170.
target_width == 1080
target_height == 1920

\* Sizes (width, height) of the frames read: landscape 16:9, portrait
\* 9:16, a portrait frame a little wider than 9:16, and one narrower.
FrameSizes == {<<1920, 1080>>, <<1080, 1920>>, <<608, 1080>>, <<1000, 1920>>}

\* Face positions are taken every XStep source pixels, from one step left
\* of the frame to one step right of it.
XStep == 40

FaceXs(width) == {XStep * k : k \in -1..((width \div XStep) + 1)}

\* int(v) for the quotient v = a / b with b > 0: truncation towards zero.
IntOfQuotient(a, b) == IF a >= 0 THEN a \div b ELSE -((-a) \div b)

\* cv2.resize(img, None, fx=scale, fy=scale), lines 268-270: the width of
\* the result is width * scale rounded to the nearest integer, with
\* scale = target_height / height.
ScaledWidth(shape) ==
    (2 * shape.width * target_height + shape.height) \div (2 * shape.height)

\* Line 276: max(min(center_x - target_width // 2, frame_width - target_width), 0).
TopX(center_x, frame_width) ==
    LET wanted == center_x - target_width \div 2
        last == frame_width - target_width
        clamped == IF wanted < last THEN wanted ELSE last
    IN  IF clamped > 0 THEN clamped ELSE 0

\* Lines 266-283: the frame is scaled to the target height, the window is
\* centred on the face and clamped, and columns top_x to top_x + 1080 are
\* cut out; a slice that reaches past the last column ends there.
CropFrame ==
    /\ stage = "crop_call"
    /\ LET frame_width == ScaledWidth(img_shape)
           center_x == IntOfQuotient(face_x * target_height, img_shape.height)
           top_x == TopX(center_x, frame_width)
           slice_end == IF top_x + target_width < frame_width THEN top_x + target_width
                        ELSE frame_width
       IN  crop' = [frame_width |-> frame_width, top_x |-> top_x,
                    cropped_width |-> slice_end - top_x]
    /\ stage' = "crop_done"
    /\ UNCHANGED <<pipelineVars, subtitleVars, tracks, scores, flist, faces, decisions,
                   img_shape, face_x, graphVars>>

\* One frame of one of the sizes in crop mode, with a face at some x.
InitCrop ==
    /\ IdlePipeline
    /\ stage = "crop_call"
    /\ NoSubtitles
    /\ tracks = <<>> /\ scores = <<>> /\ flist = <<>> /\ faces = <<>> /\ decisions = <<>>
    /\ \E size \in FrameSizes :
          /\ img_shape = [width |-> size[1], height |-> size[2]]
          /\ face_x \in FaceXs(size[1])
    /\ crop = [frame_width |-> 0, top_x |-> 0, cropped_width |-> 0]
    /\ NoGraph

NextCrop == CropFrame

SpecCrop == InitCrop /\ [][NextCrop]_vars

\* ------------------- combine_clips_with_narrative_flow: the filter graph
\* Most processed clips handed to the filter graph.
MaxGraphClips == 4

\* Durations of processed clips, in tenths of a second: 3 s, 7 s and 18 s.
ClipDurations == {30, 70, 180}

\* The 0.3 s of duration=0.3 and d=0.3 (lines 686-688, 702-704) and the
\* 1 s of the fade-out (line 692), in tenths of a second.
Overlap == 3
FadeOutLength == 10

\* A stream label: [i:v] and [i:a] are the pads of input i, the others
\* are the labels the graph names.
Label(name, i) == <<name, i>>

Filter(kind, inputs, output, at) ==
    [kind |-> kind, inputs |-> inputs, output |-> output, at |-> at]

\* sum(clip['duration'] for clip in processed_clips[:i]), line 688.
RECURSIVE SumFirst(_, _)
SumFirst(d, i) == IF i = 0 THEN 0 ELSE SumFirst(d, i - 1) + d[i]

\* Lines 682-688: the filters of clip i >= 1, its fade-in and the xfade
\* that joins it to what precedes; the first xfade takes [v0], the later
\* ones the previous [tmp].
RECURSIVE CrossfadesFrom(_, _)
CrossfadesFrom(i, d) ==
    IF i > Len(d) - 1 THEN <<>>
    ELSE <<Filter("fade_in", <<Label("in_v", i)>>, Label("v", i), 0),
           Filter("xfade",
                  <<IF i = 1 THEN Label("v", 0) ELSE Label("tmp", i - 1), Label("v", i)>>,
                  Label("tmp", i), SumFirst(d, i) - Overlap)>>
         \o CrossfadesFrom(i + 1, d)

\* Lines 695-704: an afade on every input, then the acrossfades.
RECURSIVE AudioFadesFrom(_, _)
AudioFadesFrom(i, d) ==
    IF i > Len(d) - 1 THEN <<>>
    ELSE <<Filter("afade_in", <<Label("in_a", i)>>, Label("a", i), 0)>>
         \o AudioFadesFrom(i + 1, d)

RECURSIVE AcrossfadesFrom(_, _)
AcrossfadesFrom(i, d) ==
    IF i > Len(d) - 1 THEN <<>>
    ELSE <<Filter("acrossfade",
                  <<IF i = 1 THEN Label("a", 0) ELSE Label("atmp", i - 1), Label("a", i)>>,
                  Label("atmp", i), 0)>>
         \o AcrossfadesFrom(i + 1, d)

\* Lines 673-714: filter_complex + audio_filter for the given durations,
\* and the two -map labels; the fade-out reads [tmp{n-1}] and starts at
\* last_clip_duration - 1.
FilterGraph(d) ==
    LET input_count == Len(d) IN
    [filters |->
        <<Filter("fade_in", <<Label("in_v", 0)>>, Label("v", 0), 0)>>
        \o CrossfadesFrom(1, d)
        \o <<Filter("fade_out", <<Label("tmp", input_count - 1)>>, Label("out_v", 0),
                    d[input_count] - FadeOutLength)>>
        \o AudioFadesFrom(0, d)
        \o AcrossfadesFrom(1, d),
     maps |-> <<Label("out_v", 0), Label("atmp", input_count - 1)>>]

\* Lines 673-706: the graph is built for the processed clips given.
BuildFilterGraph ==
    /\ stage = "graph_call"
    /\ filter_graph' = FilterGraph(clip_durations)
    /\ stage' = "graph_done"
    /\ UNCHANGED <<pipelineVars, subtitleVars, faceVars, clip_durations>>

\* Between one and MaxGraphClips processed clips (create_trailer raises at
\* line 542 when there is none).
InitGraph ==
    /\ IdlePipeline
    /\ stage = "graph_call"
    /\ NoSubtitles
    /\ NoFaces
    /\ clip_durations \in BoundedSeq(ClipDurations, MaxGraphClips) \ {<<>>}
    /\ filter_graph = [filters |-> <<>>, maps |-> <<>>]

NextGraph == BuildFilterGraph

SpecGraph == InitGraph /\ [][NextGraph]_vars

\* ------------------------------------------------------------- claims
Authenticated == TokenAccepted(request)
RunOver == pc = "done" /\ Authenticated
ClipRunOver == RunOver /\ ~request.generate_trailer /\ llm_calls # <<>>
TrailerRunOver == RunOver /\ request.generate_trailer

\* C1: every authenticated run of process_video makes exactly one terminal
\* notification (one call of send_webhook_notification, with status success
\* or error) before it returns or raises: never two at any time, and never
\* none once the run is over.
C1_ExactlyOneNotification ==
    /\ Len(notifications) <= 1
    /\ Len(posts) = Len(notifications)
    /\ \A i \in 1..Len(notifications) : notifications[i].status \in {"success", "error"}
    /\ RunOver => Len(notifications) = 1
    /\ response = "success" => notifications = <<[status |-> "success", error_message |-> <<>>]>>
    /\ response = "500" =>
          notifications = <<[status |-> "error", error_message |-> error_message]>>

\* C1 witness: a run that ended on an exception path (an HTTPException(400)
\* raised inside the try block) with its one error notification made.
C1_Witness ==
    /\ RunOver
    /\ response = "500"
    /\ error_message[1] = "400"
    /\ Len(notifications) = 1
    /\ notifications[1].status = "error"

\* C2 (as claimed): in clip mode every well-formed candidate among the first
\* three has been handed to process_clip when the run is over, whatever
\* happened to the candidates before it.
C2_SiblingsAlwaysAttempted ==
    ClipRunOver =>
        \A i \in 1..ClipCount : WellFormed(clip_moments[i]) => (i - 1) \in attempted

\* C3 (as claimed): a clip-mode run ends in success exactly when at least
\* one process_clip call completed.
C3_SuccessIffClipCompleted ==
    ClipRunOver => (response = "success" <=> clips_created > 0)

ProcessedIndices == {processed_clips[i].index : i \in 1..Len(processed_clips)}

C5_NoTemporaryStorageLeft ==
    RunOver => ~base_dir /\ cookies_tmp # "exists"

\* The last planned moment was cut below what trimming to 18 s leaves of
\* its candidate, that is, cut to the remaining budget (lines 504-508).
LastCutToBudget ==
    /\ selected_moments # <<>>
    /\ LET last == selected_moments[Len(selected_moments)] IN
       \A i \in 1..Len(sorted_moments) :
          sorted_moments[i].start = last.start => last.end < TrimLong(sorted_moments[i]).end

\* C6: at every point of the selection loop, and at its end, the durations
\* of the selected moments sum to at most max_content_duration (55 s), and
\* the loop's own total equals that sum.
C6_BudgetRespected ==
    /\ SumDurations(selected_moments) <= max_content_duration
    /\ total_content_duration = SumDurations(selected_moments)

\* C6 witness: selection ended with the budget used up to the second by a
\* final moment cut to what was left.
C6_Witness ==
    /\ pc = "plan_check"
    /\ LastCutToBudget
    /\ SumDurations(selected_moments) = max_content_duration

\* C7: every moment of the plan lasts at least 3 s, the final moment cut to
\* the remaining budget included.
C7_NoShortMoment ==
    \A i \in 1..Len(selected_moments) : Duration(selected_moments[i]) >= MinMomentDuration

\* C7 witness: a candidate under 3 s was passed over and the final moment
\* was cut to a remaining budget of exactly 3 s.
C7_Witness ==
    /\ pc = "plan_check"
    /\ \E i \in 1..Len(clip_moments) : Duration(clip_moments[i]) < MinMomentDuration
    /\ LastCutToBudget
    /\ Duration(selected_moments[Len(selected_moments)]) = MinMomentDuration

\* C8: every planned moment starts where a candidate starts, ends no later
\* than that candidate, and lasts at most 18 s, so no candidate longer than
\* 18 s is planned at its original length.
C8_LongMomentsTrimmed ==
    \A i \in 1..Len(selected_moments) :
        /\ Duration(selected_moments[i]) <= TrimThreshold
        /\ \E j \in 1..Len(clip_moments) :
              /\ clip_moments[j].start = selected_moments[i].start
              /\ selected_moments[i].end <= clip_moments[j].end

\* C8 witness: a 25 s candidate is in the plan with its first 18 s.
C8_Witness ==
    \E i \in 1..Len(selected_moments), j \in 1..Len(clip_moments) :
        /\ Duration(clip_moments[j]) > TrimThreshold
        /\ selected_moments[i].start = clip_moments[j].start
        /\ selected_moments[i].end = clip_moments[j].start + TrimThreshold

\* C9: the plan never holds more than 6 moments.
C9_CapRespected == Len(selected_moments) <= MaxSelected

\* C9 witness: selection stopped at 6 moments with budget and candidates
\* left over.
C9_Witness ==
    /\ pc = "plan_check"
    /\ Len(selected_moments) = MaxSelected
    /\ idx <= Len(sorted_moments)
    /\ total_content_duration + MinMomentDuration <= max_content_duration
    /\ ~TooShort(Duration(sorted_moments[idx]))

NoCandidateSurvives ==
    \A i \in 1..Len(clip_moments) : Duration(clip_moments[i]) < MinMomentDuration

NoSuitableMoments ==
    <<"Trailer generation failed", "No suitable moments found for trailer">>

\* C10: create_trailer raises "No suitable moments found for trailer" exactly
\* when the candidate list is empty or holds no candidate of 3 s or more,
\* and it does so before any segment is processed: segment processing is
\* entered only with a non-empty plan.
C10_EmptyPlanRaises ==
    /\ pc \in {"segments", "combine", "cleanup"} \/ processed_clips # <<>>
          \/ dropped_segments # {}
       => selected_moments # <<>>
    /\ NoCandidateSurvives /\ pc \notin {"create_trailer", "plan_loop", "plan_check"} =>
          /\ pc = "except"
          /\ error_message = NoSuitableMoments
          /\ processed_clips = <<>> /\ dropped_segments = {}
          /\ trailer = "none" /\ uploads = {}
    /\ error_message = NoSuitableMoments =>
          NoCandidateSurvives /\ selected_moments = <<>>

\* C10 witness: a list of candidates that are all too short made
\* create_trailer raise.
C10_Witness ==
    /\ clip_moments # <<>>
    /\ NoCandidateSurvives
    /\ pc = "except"
    /\ error_message = NoSuitableMoments

\* ------------------------------------------------------------------ C11
ChronologicalPlan ==
    \A i, j \in 1..Len(selected_moments) :
        i < j => selected_moments[i].start <= selected_moments[j].start

\* Every processed segment is a moment of the plan, and the segments stand
\* in the order of the plan.
ProcessedInPlanOrder ==
    /\ \A i \in 1..Len(processed_clips) :
          LET c == processed_clips[i] IN
          /\ c.index + 1 \in 1..Len(selected_moments)
          /\ c.start = selected_moments[c.index + 1].start
          /\ c.end = selected_moments[c.index + 1].end
    /\ \A i, j \in 1..Len(processed_clips) :
          i < j => /\ processed_clips[i].index < processed_clips[j].index
                   /\ processed_clips[i].start <= processed_clips[j].start

\* C11: whatever the order of the candidates, the planned moments have
\* non-decreasing start times, the segments are processed in that order, and
\* the concatenation list names them in that same order.
C11_PlanChronological ==
    /\ ChronologicalPlan
    /\ ProcessedInPlanOrder
    /\ pc \in {"cleanup", "except"} /\ trailer # "none" =>
          /\ Len(input_list) = Len(processed_clips)
          /\ \A i \in 1..Len(input_list) : input_list[i] = processed_clips[i].index
    /\ \A i, j \in 1..Len(input_list) : i < j => input_list[i] < input_list[j]

\* C11 witness: candidates given out of order, two or more of them planned,
\* processed and written to the concatenation list.
C11_Witness ==
    /\ \E i, j \in 1..Len(clip_moments) :
          i < j /\ clip_moments[i].start > clip_moments[j].start
    /\ Len(selected_moments) >= 2
    /\ Len(input_list) >= 2
    /\ trailer # "none"

\* ------------------------------------------------------------------ C12
\* The candidates of at least 3 s in the order given, each with its start
\* and with end = min(end, start + 18).
RECURSIVE EligibleTrimmed(_)
EligibleTrimmed(s) ==
    IF s = <<>> THEN <<>>
    ELSE LET m == Head(s)
             cut == IF m.end <= m.start + TrimThreshold THEN m.end
                    ELSE m.start + TrimThreshold
         IN  (IF m.end - m.start >= MinMomentDuration
                 THEN <<[m EXCEPT !.end = cut]>>
                 ELSE <<>>) \o EligibleTrimmed(Tail(s))

NoConstraintBinds ==
    /\ Len(EligibleTrimmed(clip_moments)) <= MaxSelected
    /\ SumDurations(EligibleTrimmed(clip_moments)) <= max_content_duration

\* C12: when the candidates of at least 3 s number at most 6 and their
\* trimmed durations sum to at most 55 s, the finished plan is exactly those
\* candidates in start order, each with its start and with
\* end = min(end, start + 18), and the bookkeeping total is their sum.
C12_AllEligibleKept ==
    pc \notin {"create_trailer", "plan_loop"} /\ NoConstraintBinds =>
        /\ selected_moments = EligibleTrimmed(SortByStart(clip_moments))
        /\ total_content_duration = SumDurations(EligibleTrimmed(clip_moments))

\* C12 witness: the candidates (0,2), (10,25), (40,65) gave the plan
\* (10,25), (40,58) with a total of 33 s.
C12_Witness ==
    /\ pc = "plan_check"
    /\ clip_moments = <<Moment(0, 2), Moment(10, 25), Moment(40, 65)>>
    /\ selected_moments = <<Moment(10, 25), Moment(40, 58)>>
    /\ total_content_duration = 33

\* ----------------------------------------------------------- C13 to C16
\* text.split(' '): the words a line text is made of.
RECURSIVE SplitAt(_, _, _)
SplitAt(text, cur, acc) ==
    IF text = <<>> THEN Append(acc, cur)
    ELSE IF Head(text) = " " THEN SplitAt(Tail(text), <<>>, Append(acc, cur))
    ELSE SplitAt(Tail(text), Append(cur, Head(text)), acc)

WordsOf(text) == IF text = <<>> THEN <<>> ELSE SplitAt(text, <<>>, <<>>)

RECURSIVE LineWords(_)
LineWords(lines) ==
    IF lines = <<>> THEN <<>> ELSE WordsOf(Head(lines).text) \o LineWords(Tail(lines))

\* A segment carries a word when its text is not only whitespace.
CarriesWord(segment) == \E i \in 1..Len(segment.word) : segment.word[i] # " "

\* The segments with a word that the window filter retains, in the order
\* of the transcript.
RECURSIVE RetainedSegments(_)
RetainedSegments(segments) ==
    IF segments = <<>> THEN <<>>
    ELSE LET g == Head(segments)
         IN  (IF g.timed /\ g.end > clip_start /\ g.start < clip_end /\ CarriesWord(g)
                 THEN <<g>> ELSE <<>>) \o RetainedSegments(Tail(segments))

Retained == RetainedSegments(transcript_segments)

RetainedWords == [i \in 1..Len(Retained) |-> Strip(Retained[i].word)]

SubtitlesBuilt == stage = "subtitles_done"

\* C13: each subtitle line is non-empty and holds at most max_words words,
\* and the line texts, read in order, give the words retained by the window
\* filter in their order, each exactly once.  (A segment whose word is
\* empty or whitespace carries no word.)
C13_LinesCoverRetainedWords ==
    SubtitlesBuilt =>
        /\ \A i \in 1..Len(subtitles) :
              LET words == WordsOf(subtitles[i].text) IN
              /\ subtitles[i].text # <<>>
              /\ Len(words) \in 1..max_words
              /\ \A k \in 1..Len(words) : words[k] # <<>>
        /\ LineWords(subtitles) = RetainedWords

\* C13 witness: a transcript with a segment outside the window and a blank
\* one gave several lines under max_words = 3.
C13_Witness ==
    /\ SubtitlesBuilt
    /\ max_words = TrailerMaxWords
    /\ Len(subtitles) >= 2
    /\ \E i \in 1..Len(transcript_segments) :
          ~InClipWindow(transcript_segments[i], clip_start, clip_end)
    /\ \E i \in 1..Len(transcript_segments) :
          /\ InClipWindow(transcript_segments[i], clip_start, clip_end)
          /\ ~CarriesWord(transcript_segments[i])

\* C14: whatever the order and overlap of the word segments, the lines are
\* chronological and do not overlap: each line starts no later than it
\* ends, and ends no later than the next line starts.
C14_LinesOrderedDisjoint ==
    SubtitlesBuilt =>
        \A i \in 1..Len(subtitles) :
            /\ subtitles[i].start <= subtitles[i].end
            /\ i < Len(subtitles) => subtitles[i].end <= subtitles[i + 1].start

\* The place in Retained of the first word of line i.
RECURSIVE FirstWordIndex(_)
FirstWordIndex(i) ==
    IF i = 1 THEN 1 ELSE FirstWordIndex(i - 1) + Len(WordsOf(subtitles[i - 1].text))

\* C15: a word appears in the subtitles only if its segment ends after
\* clip_start and begins before clip_end; a word that spans the clip start
\* is included, and a line it opens starts at 0; every relative time is
\* at least 0.
C15_WindowAndClamp ==
    SubtitlesBuilt =>
        /\ \A k \in 1..Len(LineWords(subtitles)) :
              \E i \in 1..Len(transcript_segments) :
                  LET g == transcript_segments[i] IN
                  /\ Strip(g.word) = LineWords(subtitles)[k]
                  /\ g.timed /\ g.end > clip_start /\ g.start < clip_end
        /\ \A i \in 1..Len(transcript_segments) :
              LET g == transcript_segments[i] IN
              g.timed /\ CarriesWord(g) /\ g.start < clip_start /\ g.end > clip_start =>
                  \E k \in 1..Len(LineWords(subtitles)) :
                      LineWords(subtitles)[k] = Strip(g.word)
        /\ \A i \in 1..Len(subtitles) :
              /\ subtitles[i].start >= 0
              /\ subtitles[i].end >= 0
              /\ FirstWordIndex(i) \in 1..Len(Retained)
              /\ Retained[FirstWordIndex(i)].start <= clip_start => subtitles[i].start = 0
              /\ Retained[FirstWordIndex(i)].start > clip_start =>
                    subtitles[i].start = Retained[FirstWordIndex(i)].start - clip_start

\* C15 witness: with the window (3,5) the word ending at 3 and the word
\* beginning at 5 are left out and the word spanning 3 opens the only line
\* at 0.
C15_Witness ==
    /\ SubtitlesBuilt
    /\ clip_start = 3 /\ clip_end = 5
    /\ transcript_segments =
          <<Segment(<<"b">>, 1, 3), Segment(<<"c">>, 2, 4), Segment(<<" ", "d">>, 5, 7)>>
    /\ subtitles = <<[start |-> 0, end |-> 1, text |-> <<"c">>]>>

\* C16: lines are filled greedily: every line but the last holds exactly
\* max_words words, so n retained words give ceil(n / max_words) lines.
C16_GreedyFill ==
    SubtitlesBuilt =>
        /\ \A i \in 1..Len(subtitles) :
              LET n == Len(WordsOf(subtitles[i].text)) IN
              IF i < Len(subtitles) THEN n = max_words ELSE n \in 1..max_words
        /\ Len(subtitles) = (Len(RetainedWords) + max_words - 1) \div max_words

\* C16 witness: six words under max_words = 5 gave a line of five words and
\* a line holding the sixth.
C16_Witness ==
    /\ SubtitlesBuilt
    /\ max_words = ClipMaxWords
    /\ Len(RetainedWords) = 6
    /\ Len(subtitles) = 2
    /\ WordsOf(subtitles[1].text) = SubSeq(RetainedWords, 1, 5)
    /\ WordsOf(subtitles[2].text) = <<RetainedWords[6]>>

\* ----------------------------------------------------------- C17 and C18
FacesChosen == stage = "faces_done"

\* One track, covering every frame of the clip, with a score that rises
\* from each frame to the next.
SingleRisingTrack ==
    /\ Len(tracks) = 1
    /\ Len(flist) >= 2
    /\ tracks[1].frame = [i \in 1..Len(flist) |-> i - 1]
    /\ \A i \in 1..(Len(scores[1]) - 1) : scores[1][i] < scores[1][i + 1]

\* The sum of the scores of track t (from 1) within 30 places of the place
\* i (from 1) the frame has in the track.
WindowSum(t, i) ==
    LET in_window == {j \in 1..Len(scores[t]) : j >= i - HalfWindow /\ j < i + HalfWindow}
        RECURSIVE Sum(_)
        Sum(S) == IF S = {} THEN 0
                  ELSE LET j == CHOOSE j \in S : TRUE IN scores[t][j] + Sum(S \ {j})
    IN  Sum(in_window)

\* C17 as stated: with a single rising track present in every frame, every
\* output frame shows that track.
C17_SingleTrackAlwaysChosen ==
    FacesChosen /\ SingleRisingTrack =>
        \A f \in 1..Len(flist) : flist[f] => decisions[f] = Decision("crop", 0)

\* C17 amended: with a single rising track present in every frame, an
\* output frame shows that track exactly when the track's smoothed score at
\* the frame is not negative, which is so for every frame when no score is
\* negative; with a negative smoothed score the frame has no face.
C17_SingleTrackChosenUnlessNegative ==
    FacesChosen /\ SingleRisingTrack =>
        /\ \A f \in 1..Len(flist) : flist[f] =>
              IF WindowSum(1, f) >= 0 THEN decisions[f] = Decision("crop", 0)
              ELSE decisions[f] = Decision("resize", -1)
        /\ (\A i \in 1..Len(scores[1]) : scores[1][i] >= 0) =>
              \A f \in 1..Len(flist) : flist[f] => decisions[f] = Decision("crop", 0)

\* C17 witness: a single track rising from 0 to 0.8 was chosen in both
\* frames.
C17_Witness ==
    /\ FacesChosen
    /\ SingleRisingTrack
    /\ scores = <<(<<0, 8>>)>>
    /\ decisions = <<Decision("crop", 0), Decision("crop", 0)>>

\* The tracks (from 1) observed in frame f (from 1), and the place of the
\* frame in such a track.
TracksAt(f) ==
    {t \in 1..Len(tracks) : \E i \in 1..Len(tracks[t].frame) : tracks[t].frame[i] = f - 1}

PlaceIn(t, f) == CHOOSE i \in 1..Len(tracks[t].frame) : tracks[t].frame[i] = f - 1

\* Smoothed score of t at f below that of u: sums over windows compared as
\* means.
WindowSize(t, i) ==
    Cardinality({j \in 1..Len(scores[t]) : j >= i - HalfWindow /\ j < i + HalfWindow})

SmoothedBelow(t, u, f) ==
    WindowSum(t, PlaceIn(t, f)) * WindowSize(u, PlaceIn(u, f))
        < WindowSum(u, PlaceIn(u, f)) * WindowSize(t, PlaceIn(t, f))

\* C18: in every output frame the face is the observation of the highest
\* smoothed score, the first-enumerated track winning a tie; there is no
\* face when that score is negative or the frame has no observation; the
\* mode is crop exactly when there is a face and resize otherwise.
C18_FrameDecision ==
    FacesChosen =>
        \A f \in 1..Len(flist) : flist[f] =>
            /\ decisions[f].mode \in {"crop", "resize"}
            /\ decisions[f].mode = "crop" <=> decisions[f].track # -1
            /\ IF TracksAt(f) = {} THEN decisions[f].track = -1
               ELSE LET best == CHOOSE t \in TracksAt(f) :
                                    \A u \in TracksAt(f) :
                                        /\ ~SmoothedBelow(t, u, f)
                                        /\ u < t => SmoothedBelow(u, t, f)
                    IN  IF WindowSum(best, PlaceIn(best, f)) < 0
                           THEN decisions[f].track = -1
                           ELSE decisions[f].track = best - 1

\* C18 witness: track A at 0.8 and track B at -0.5 in one frame gave crop
\* on track A.
C18_Witness ==
    /\ FacesChosen
    /\ Len(flist) = 1 /\ flist[1]
    /\ tracks = <<[frame |-> <<0>>], [frame |-> <<0>>]>>
    /\ scores = <<(<<8>>), (<<-5>>)>>
    /\ decisions = <<Decision("crop", 0)>>

\* ------------------------------------------------------------------ C19
\* C19: a request whose bearer token is wrong or missing is turned away
\* before any processing: the run never leaves the entry of process_video,
\* no run directory is made, no cookies, download, transcription or
\* identification step is taken, nothing is uploaded and no webhook
\* notification is attempted.
C19_RejectedBeforeProcessing ==
    request.token # "valid" =>
        /\ pc \in {"idle", "done"}
        /\ pc = "done" => response \in {"401", "not_authenticated"}
        /\ base_dir = FALSE
        /\ cookies_tmp = "none" /\ cookies_s3 = "untouched"
        /\ llm_calls = <<>> /\ clip_moments = <<>>
        /\ selected_moments = <<>> /\ processed_clips = <<>>
        /\ attempted = {} /\ clips_created = 0
        /\ uploads = {} /\ trailer = "none"
        /\ notifications = <<>> /\ posts = <<>>

\* C19 witness: a request with a wrong token was answered 401.
C19_Witness ==
    /\ pc = "done"
    /\ request.token = "wrong"
    /\ response = "401"
    /\ notifications = <<>>

\* ------------------------------------------------------------------ C20
NoSuitableInVideo == <<"No suitable moments found in video">>

NoSuitableForTrailerGeneration ==
    <<"Trailer generation failed",
      "No suitable moments found in video for trailer generation">>

\* What the claim says of a first identification answer of one of the
\* given kinds: parsing leaves an empty candidate list and raises nothing,
\* a clip run then ends with "No suitable moments found in video", and a
\* trailer run ends with a no-suitable-moments error only when the fallback
\* call brought no list of moments, or none of 3 s or more.
MalformedOutputHandled(kinds) ==
    Len(llm_calls) >= 1 /\ llm_calls[1].kind \in kinds =>
        /\ Len(llm_calls) = 1 => clip_moments = <<>>
        /\ Len(llm_calls) = 1 /\ error_message # <<>> =>
              ~request.generate_trailer /\ error_message = NoSuitableInVideo
        /\ ~request.generate_trailer /\ pc = "done" =>
              response = "500" /\ error_message = NoSuitableInVideo
        /\ error_message = NoSuitableForTrailerGeneration => clip_moments = <<>>
        /\ error_message = NoSuitableMoments => NoCandidateSurvives

\* C20: an identification output that is no parseable JSON, or parses to
\* something other than a list, leaves the candidate list empty without the
\* parse step failing the run; the run fails afterwards with a
\* no-suitable-moments error only if no fallback recovers moments.
C20_MalformedOutputNeverFatal ==
    MalformedOutputHandled({"not_json", "not_list", "absent"})

\* ------------------------------------------------------------------ C21
\* The list the fallback call of a trailer run yields: the items of a list
\* answer, nothing for any other answer.
FallbackYield == IF llm_calls[2].kind = "list" THEN llm_calls[2].items ELSE <<>>

ErrorPathInOrder(storage_cleaned) ==
    Authenticated =>
        /\ error_message # <<>> => pc \in {"except", "notify_error", "reraise", "done"}
        /\ pc \in {"except", "notify_error", "reraise"} => error_message # <<>>
        /\ pc \in {"notify_error", "reraise"}
              \/ (pc = "done" /\ error_message # <<>>) => storage_cleaned
        /\ pc \in {"except", "notify_error"} => notifications = <<>> /\ response = "none"
        /\ pc = "reraise" =>
              /\ notifications = <<[status |-> "error", error_message |-> error_message]>>
              /\ response = "none"
        /\ pc = "done" /\ error_message # <<>> =>
              /\ notifications = <<[status |-> "error", error_message |-> error_message]>>
              /\ response = "500"

\* C23: every failure raised in an authenticated run reaches the one
\* terminal error path, which first cleans up the temporary storage of the
\* run (the run directory and the temporary cookies file), then makes
\* exactly one error notification with the message of the failure, then
\* answers with a server error.
C23_TerminalErrorPath == ErrorPathInOrder(~base_dir /\ cookies_tmp # "exists")

\* ------------------------------------------------------------------ C24
\* C24: a webhook delivery that fails (WEBHOOK_URL unset, an answer other
\* than 200, or an exception of the post) is not retried, at most one post
\* being made in a run, and leaves the outcome of the run as processing
\* decided it: the step after the notification, the message of the failure
\* and the answer (success after the success notification, HTTP 500 after
\* the error notification) are the same for every delivery outcome.
C24_WebhookFailureHarmless ==
    /\ Len(posts) <= 1
    /\ Len(posts) = Len(notifications)
    /\ \A i \in 1..Len(posts) : posts[i] \in WebhookOutcomes
    /\ Authenticated /\ posts # <<>> =>
          /\ pc \in {"return", "reraise", "done"}
          /\ notifications[1].status = "success" =>
                /\ error_message = <<>>
                /\ pc \in {"return", "done"}
                /\ pc = "done" => response = "success"
          /\ notifications[1].status = "error" =>
                /\ error_message # <<>>
                /\ error_message = notifications[1].error_message
                /\ pc \in {"reraise", "done"}
                /\ pc = "done" => response = "500"

C24_Witness ==
    /\ pc = "done" /\ response = "success" /\ posts = <<"exception">>
    /\ uploads # {}

\* ------------------------------------------------------------------ C25
\* The run has fetched, or tried to fetch, the cookies artifact (the
\* download of line 1202 was started) and is past its use by the video
\* download.
CookiesUseOver ==
    /\ Authenticated
    /\ cookies_tmp # "none"
    /\ pc \notin {"cookies_download", "youtube_download"}

\* C25: in a URL-sourced run that fetched or tried to fetch the cookies
\* artifact, the deletion of the stored object and of the temporary copy
\* has been attempted once the use is over, whatever the download did; a
\* deletion that fails raises nothing, so a run with a failed deletion and no
\* other failure still goes on to transcription.
C25_CookiesDeletionAttempted ==
    /\ CookiesUseOver => cookies_s3 \in {"deleted", "delete_failed"}
    /\ Authenticated /\ cookies_s3 = "delete_failed" /\ error_message # <<>>
          /\ llm_calls = <<>> =>
          error_message \in {<<"400", "YouTube download failed", "yt-dlp error">>,
                             <<"400", "YouTube download failed",
                               "Video too long (max 1 hour)">>,
                             <<"Transcription failed">>}

\* ------------------------------------------------------------------ C26
VideoTooLong == <<"400", "YouTube download failed", "Video too long (max 1 hour)">>

\* C26: a video whose reported duration exceeds one hour never reaches
\* transcription, identification, generation or upload: the run aborts
\* with the error "Video too long (max 1 hour)", which the one error
\* notification carries to the user; a video of exactly one hour is let
\* through.
C26_DurationCap ==
    /\ duration > MaxVideoDuration =>
          /\ pc \in {"except", "notify_error", "reraise", "done"}
          /\ error_message = VideoTooLong
          /\ llm_calls = <<>> /\ attempted = {} /\ uploads = {} /\ trailer = "none"
          /\ response # "success"
          /\ pc = "done" =>
                /\ response = "500"
                /\ notifications = <<[status |-> "error", error_message |-> VideoTooLong]>>
    /\ error_message = VideoTooLong => duration > MaxVideoDuration
    /\ pc = "transcribe" /\ request.youtube_url => duration = MaxVideoDuration

C26_Witness ==
    /\ pc = "done" /\ duration = MaxVideoDuration + 1 /\ response = "500"
    /\ posts = <<"200">>

\* ------------------------------------------------------------------ C27
CookiesRequired == <<"400", "Cookies file is required for YouTube downloads">>

\* C27: a request with a YouTube URL and no cookies key is turned down with
\* the message of the 400 validation error, "Cookies file is required for
\* YouTube downloads", before any heavy work: nothing is fetched, no video
\* is downloaded, the run never reaches transcription, no identification
\* call is made and nothing is generated or uploaded; the message reaches
\* the user in the error notification and in the detail of the answer.
C27_MissingCookiesRejected ==
    /\ Authenticated /\ request.youtube_url /\ ~request.cookies_s3_key =>
          /\ pc \in {"mkdir", "source", "except", "notify_error", "reraise", "done"}
          /\ cookies_tmp = "none" /\ cookies_s3 = "untouched" /\ duration = 0
          /\ llm_calls = <<>> /\ attempted = {} /\ processed_clips = <<>>
          /\ uploads = {} /\ trailer = "none"
          /\ response # "success"
          /\ pc \in {"except", "notify_error", "reraise", "done"} =>
                error_message \in {CookiesRequired, <<"mkdir failed">>}
          /\ pc = "done" /\ error_message = CookiesRequired =>
                /\ notifications = <<[status |-> "error",
                                      error_message |-> CookiesRequired]>>
                /\ response = "500"
    /\ error_message = CookiesRequired =>
          request.youtube_url /\ ~request.cookies_s3_key

C27_Witness ==
    /\ pc = "done" /\ Authenticated
    /\ request.youtube_url /\ ~request.cookies_s3_key
    /\ error_message = CookiesRequired /\ posts = <<"200">>

\* ------------------------------------------------------------------ C28
\* C28: a run ended by the wall-clock timeout is a failure without any
\* partial success: nothing it uploaded before the timeout is still in the
\* bucket, and no success has been notified.
C28_TimeoutKeepsNothing ==
    response = "timeout" =>
        /\ uploads = {}
        /\ \A i \in 1..Len(notifications) : notifications[i].status # "success"

\* ------------------------------------------------------------------ C29
\* C29: when the crossfade render fails, the trailer is rendered again as
\* a plain concatenation of the same segments with one fade-in and one
\* fade-out and no crossfade; the job fails on the render only when this
\* second render fails as well.
C29_SimpleFallbackFades ==
    /\ trailer = "simple" =>
          /\ RenderEffects(trailer) = {"fade_in", "fade_out"}
          /\ input_list = [i \in 1..Len(processed_clips) |-> processed_clips[i].index]
    /\ trailer # "none" =>
          error_message # <<"Trailer generation failed", "ffmpeg concat failed">>

\* ------------------------------------------------------------------ C30
\* The state of the run lifecycle a position of process_video belongs to:
\* 0 Received, 1 Downloading, 2 Transcribing, 3 IdentifyingMoments,
\* 4 Generating (the upload of the trailer closes it), 5 the cleanup and
\* the notification, 6 Notified.
LifecycleState(p) ==
    CASE p = "idle" -> 0
      [] p \in {"mkdir", "source", "cookies_download", "youtube_download"} -> 1
      [] p = "transcribe" -> 2
      [] p \in {"identify", "trailer_fallback"} -> 3
      [] p \in {"clips", "create_trailer", "plan_loop", "plan_check", "segments",
                "combine"} -> 4
      [] p \in {"cleanup", "notify_success", "except", "notify_error"} -> 5
      [] p \in {"return", "reraise", "done"} -> 6

\* Generation is still going on: the clip loop has a well-formed moment
\* left to process, or the trailer is not rendered yet.
GenerationPending(p, i, moments, rendered) ==
    \/ p = "clips" /\ \E j \in i..Len(moments) : j <= MaxClips /\ WellFormed(moments[j])
    \/ p \in {"create_trailer", "plan_loop", "plan_check", "segments"}
    \/ p = "combine" /\ rendered = "none"

\* C30: a run goes through Downloading, Transcribing, IdentifyingMoments,
\* Generating, Uploading and Notified in this order and never back; no
\* artifact is uploaded while generation has not finished; and the
\* notification is the last effect of the run, only the answer following it.
C30_LifecycleInOrder ==
    [][/\ LifecycleState(pc') >= LifecycleState(pc)
       /\ uploads' # uploads =>
             ~GenerationPending(pc', idx', clip_moments', trailer')
       /\ notifications # <<>> =>
             /\ LifecycleState(pc) = 6
             /\ UNCHANGED <<base_dir, sourceVars, llm_calls, clip_moments, uploads,
                            trailer, notifications, posts, error_message>>]_vars

\* ------------------------------------------------------------------ C31
\* The run is past moment identification.
Identified ==
    /\ Authenticated
    /\ \/ LifecycleState(pc) = 4
       \/ pc \in {"cleanup", "notify_success", "return"}
       \/ response = "success"

\* C31 as stated: a run that has identified its moments has invoked the
\* identification collaborator exactly once, in clip mode and in trailer
\* mode alike.
C31_IdentifiedOnce == Identified => Len(llm_calls) = 1

\* C31 as amended: the collaborator is invoked once per run, and in trailer
\* mode a second and last time, with the clip prompt, exactly when the
\* trailer call yielded no moment; in clip mode never twice.
C31_OnceOrFallback ==
    /\ Len(llm_calls) <= 2
    /\ Identified => Len(llm_calls) >= 1
    /\ Len(llm_calls) >= 1 =>
          llm_calls[1].prompt = IF request.generate_trailer THEN "trailer" ELSE "clips"
    /\ ~request.generate_trailer => Len(llm_calls) <= 1
    /\ Len(llm_calls) = 2 =>
          /\ llm_calls[1].items = <<>>
          /\ llm_calls[2].prompt = "clips"
    /\ Identified /\ request.generate_trailer /\ llm_calls[1].items = <<>> =>
          Len(llm_calls) = 2

C31_Witness ==
    /\ pc = "done" /\ response = "success" /\ request.generate_trailer
    /\ Len(llm_calls) = 2 /\ llm_calls[1].kind = "list"

\* ------------------------------------------------------------------ C32
\* The messages of the exceptions a malformed candidate raises: the
\* membership test of line 1336 on a scalar, the sort key of line 464 and
\* the subscript of line 470.
MalformedCandidateErrors ==
    {<<"TypeError: argument is not iterable">>,
     <<"Trailer generation failed", "TypeError or KeyError: start">>,
     <<"Trailer generation failed", "KeyError: end">>}

\* C32: a candidate that lacks start or end, or is no object at all, is
\* skipped without raising, in clip mode and in trailer mode, and the
\* candidates after it are still processed: no run fails on such an
\* element, and a clip run that is over has handed every well-formed one
\* of its first three candidates to process_clip.
C32_MalformedSkipped ==
    /\ error_message \notin MalformedCandidateErrors
    /\ ClipRunOver =>
          \A i \in 1..ClipCount : WellFormed(clip_moments[i]) => (i - 1) \in attempted

\* ------------------------------------------------------------------ C33
\* C33: every moment handed to process_clip, and every moment selected for
\* trailer segment processing, has end > start.
C33_IntervalsValidated ==
    /\ \A i \in attempted : clip_moments[i + 1].end > clip_moments[i + 1].start
    /\ \A i \in 1..Len(selected_moments) :
          selected_moments[i].end > selected_moments[i].start

\* ------------------------------------------------------------------ C34
\* The planning loop is looking at a candidate of 3 s or more whose
\* duration, cut to 18 s when longer, no longer fits into the budget.
Overflowing ==
    /\ pc = "plan_loop" /\ idx <= Len(sorted_moments)
    /\ total_content_duration < max_content_duration
    /\ LET d == sorted_moments[idx].end - sorted_moments[idx].start
           final == IF d <= TrimThreshold THEN d ELSE TrimThreshold
       IN  d >= MinMomentDuration
           /\ total_content_duration + final > max_content_duration

\* C34: when a candidate overflows the 55 s budget and at least 3 s remain,
\* it is selected cut to exactly the remaining budget, the total becomes
\* exactly 55 s and the selection ends; when less than 3 s remain it is
\* skipped, and from then on nothing is added to the plan.
C34_TrimToRemaining ==
    [][/\ Overflowing =>
             LET remaining == max_content_duration - total_content_duration
                 moment == sorted_moments[idx]
             IN  IF remaining >= MinMomentDuration
                    THEN /\ selected_moments' =
                               Append(selected_moments,
                                      [moment EXCEPT !.end = moment.start + remaining])
                         /\ total_content_duration' = max_content_duration
                         /\ pc' = "plan_check"
                    ELSE /\ selected_moments' = selected_moments
                         /\ total_content_duration' = total_content_duration
       /\ pc # "create_trailer"
             /\ max_content_duration - total_content_duration < MinMomentDuration =>
             selected_moments' = selected_moments
       /\ pc = "plan_check" => selected_moments' = selected_moments]_vars

C34_Witness ==
    /\ pc = "plan_check" /\ total_content_duration = max_content_duration
    /\ idx <= Len(sorted_moments)
    /\ Len(selected_moments) = 4
    /\ Duration(selected_moments[4]) = 7

\* ------------------------------------------------------------------ C35
\* The sum of s[j] over the 0-based indices j of the set.
RECURSIVE SumAt(_, _)
SumAt(s, indices) ==
    IF indices = {} THEN 0
    ELSE LET j == CHOOSE j \in indices : TRUE
         IN  s[j + 1] + SumAt(s, indices \ {j})

Max(a, b) == IF a > b THEN a ELSE b
Min(a, b) == IF a < b THEN a ELSE b

\* C35: the smoothed score recorded for a track at its track-local index
\* fidx is the mean of the track's scores over the indices from
\* max(fidx - 30, 0) up to, not including, min(fidx + 30, len), and 0 when
\* there is no such index; fidx counts within the track, whatever frame
\* number the track starts at.
C35_SmoothedScoreWindow ==
    stage = "faces_done" =>
        \A t \in 1..Len(tracks) : \A i \in 1..Len(tracks[t].frame) :
            LET fidx == i - 1
                f == tracks[t].frame[i] + 1
                window == Max(fidx - HalfWindow, 0)..(Min(fidx + HalfWindow, Len(scores[t])) - 1)
            IN  \E n \in 1..Len(faces[f]) :
                    /\ faces[f][n].track = t - 1
                    /\ IF window = {}
                          THEN faces[f][n].score.num = 0
                          ELSE faces[f][n].score.num * Cardinality(window)
                                  = SumAt(scores[t], window) * faces[f][n].score.den

\* A track from frame 1 on whose window at fidx 31 is cut at neither end.
C35_Witness ==
    /\ stage = "faces_done"
    /\ Len(tracks) = 1 /\ Len(tracks[1].frame) = MaxTrackLen
    /\ tracks[1].frame[1] = 1
    /\ scores[1] = PeakedScores(MaxTrackLen, 1)
    /\ faces[33][1].score = [num |-> 0, den |-> 60]
    /\ faces[2][1].score = [num |-> 8, den |-> 30]

\* ------------------------------------------------------------------ C36
\* C36: in crop mode the crop window lies within the scaled frame for
\* every face position and every source size: 0 <= top_x and
\* top_x + 1080 <= width of the frame scaled to the target height, so that
\* the cropped image is exactly 1080 wide.
C36_CropWindowInFrame ==
    stage = "crop_done" =>
        /\ 0 <= crop.top_x
        /\ crop.top_x + target_width <= crop.frame_width
        /\ crop.cropped_width = target_width

\* ------------------------------------------------------------------ C37
\* The filters of the graph of the given kind.
FiltersOf(kind) ==
    {n \in 1..Len(filter_graph.filters) : filter_graph.filters[n].kind = kind}

\* The sum of the first i durations.
DurationBefore(i) == SumAt(clip_durations, 0..(i - 1))

\* C37: in the schedule for n segments the crossfade that joins segment i
\* (1 <= i < n) has the offset sum of the durations of segments 0..i-1
\* minus 0.3 s; the first segment gets a fade-in; and the fade-out is
\* applied on the last segment, starting no earlier than the offset at
\* which the last segment comes in.
C37_TransitionSchedule ==
    stage = "graph_done" =>
        LET n == Len(clip_durations) IN
        /\ Cardinality(FiltersOf("xfade")) = n - 1
        /\ \A i \in 1..(n - 1) :
              \E k \in FiltersOf("xfade") :
                  /\ filter_graph.filters[k].inputs[2] = Label("v", i)
                  /\ filter_graph.filters[k].at = DurationBefore(i) - Overlap
        /\ \E k \in FiltersOf("fade_in") :
              filter_graph.filters[k].inputs = <<Label("in_v", 0)>>
        /\ Cardinality(FiltersOf("fade_out")) = 1
        /\ \A k \in FiltersOf("fade_out") :
              filter_graph.filters[k].at >=
                 IF n = 1 THEN 0 ELSE DurationBefore(n - 1) - Overlap

\* ------------------------------------------------------------------ C38
\* C38: success is notified only when at least one output artifact has
\* been stored in the bucket; a clip run whose every upload failed never
\* reports success.
C38_SuccessMeansStored ==
    (\E i \in 1..Len(notifications) : notifications[i].status = "success")
       \/ response = "success" => uploads # {}

\* ------------------------------------------------------------------ C39
\* The labels the filters before position k produce.
ProducedBefore(k) == {filter_graph.filters[j].output : j \in 1..(k - 1)}

InputPad(label) == label[1] \in {"in_v", "in_a"}

\* C39: for every number n >= 1 of processed segments the filter graph is
\* well formed: every label a filter consumes, other than the pad of an
\* input file, and every label mapped to the output is produced by an
\* earlier filter of the graph.
C39_GraphWellFormed ==
    stage = "graph_done" =>
        /\ \A k \in 1..Len(filter_graph.filters) :
              \A m \in 1..Len(filter_graph.filters[k].inputs) :
                  LET label == filter_graph.filters[k].inputs[m]
                  IN  InputPad(label) \/ label \in ProducedBefore(k)
        /\ \A m \in 1..Len(filter_graph.maps) :
              filter_graph.maps[m] \in ProducedBefore(Len(filter_graph.filters) + 1)

\* ------------------------------------------------------------------ C40
\* C40: every subtitle line lies inside its clip, also when a word spans
\* the end of the clip: 0 <= start <= end <= clip_end - clip_start.
C40_LinesInsideClip ==
    stage = "subtitles_done" =>
        \A n \in 1..Len(subtitles) :
            /\ 0 <= subtitles[n].start
            /\ subtitles[n].start <= subtitles[n].end
            /\ subtitles[n].end <= clip_end - clip_start

====
